---------------------------- MODULE Spec2Model ----------------------------
(***************************************************************************)
(* FaceGuard V2 API gateway: the resilience layer.                         *)
(*                                                                         *)
(*   - CircuitBreaker (middleware/circuitBreaker.ts): one breaker per      *)
(*     upstream service, wrapping an asynchronous operation in a race      *)
(*     against a timer.                                                    *)
(*   - the circuit-breaker proxy (middleware/circuitBreakerProxyFixed.ts)  *)
(*   - the optimized health routes (routes/healthOptimized.ts)             *)
(*                                                                         *)
(* The gateway runs on a single-threaded event loop: every action below is *)
(* one turn of that loop (a handler run from its start to its first await, *)
(* or the continuation that runs when a promise or a timer settles,        *)
(* together with the microtasks it schedules).                             *)
(*                                                                         *)
(* Time is Date.now() in milliseconds.  The clock advances in steps of     *)
(* Tick, the greatest common divisor of the configured durations.          *)
(***************************************************************************)
EXTENDS Integers, FiniteSets, Sequences, TLC

(***************************************************************************)
(* Program constants                                                       *)
(***************************************************************************)
\* circuitBreakerConfig (config/settings.ts)
timeout == 5000
errorThreshold == 50
resetTimeout == 30000
\* the literal 5 of CircuitBreaker.onFailure
minFailures == 5
\* serviceConfigs.*.timeout (config/settings.ts)
coreDataTimeout == 5000
faceRecognitionTimeout == 30000
cameraStreamTimeout == 10000
\* the status of every gateway-made error response (fallback, generic, proxy)
serviceUnavailable == 503
\* healthConfig.cacheTtl (config/settings.ts)
cacheTtl == 10000
\* the status of a /health response whose status is 'healthy'
ok == 200

\* enum CircuitState
CLOSED == "closed"
OPEN == "open"
HALF_OPEN == "half-open"
CircuitState == {CLOSED, OPEN, HALF_OPEN}

\* enum ServiceType
CORE_DATA == "coreData"
FACE_RECOGNITION == "faceRecognition"
CAMERA_STREAM == "cameraStream"
ServiceType == {CORE_DATA, FACE_RECOGNITION, CAMERA_STREAM}

\* lastFailureTime?: number / lastSuccessTime?: number -- undefined until
\* first set.  Date.now() is always positive, so 0 stands for undefined
\* (it is falsy in `!this.lastFailureTime`, as undefined is).
Unset == 0

(***************************************************************************)
(* Bounds of the model                                                     *)
(***************************************************************************)
\* the clock runs from Tick to MaxTicks * Tick
MaxTicks == 7
\* execute() is not called on a breaker whose requestCount reached this
MaxRequests == 11
\* number of execute() calls that may be in flight or abandoned at once
MaxCalls == 2
\* an execute() that overlaps a race in progress is started only on a
\* breaker whose requestCount is below this
MaxOverlapRequests == 6

\* number of proxied requests whose exchange may be in progress at once
MaxProxied == 1
\* a proxied request is not started on a breaker whose requestCount
\* reached this
MaxProxyRequests == 6
\* a proxied request that overlaps an exchange in progress is started only
\* on a breaker whose requestCount is below this
MaxProxyOverlap == 1

\* number of aggregate refreshes (performConcurrentHealthCheck calls) that
\* may be awaiting their checks at once
MaxRefreshes == 2
\* a health check is not started on a breaker whose requestCount reached this
MaxChecks == 2
\* the per-service endpoints are requested during the first
\* MaxEndpointTicks ticks of the clock
MaxEndpointTicks == 1
\* getStats() is called MaxStatsCalls times in a row
MaxStatsCalls == 2
\* calls (proxied requests and health checks together) that enter a breaker
\* after proxied traffic has tripped it, and calls that enter each of the
\* other breakers
MaxSharedCalls == 3
MaxOtherCalls == 1

Tick == timeout
CallIds == 1..MaxCalls
ReqIds == 1..MaxProxied
\* status codes an upstream may answer with
UpstreamStatus == {200, 500}

Max(a, b) == IF a >= b THEN a ELSE b

VARIABLES
    now,     \* Date.now()
    cb,      \* serviceCircuitBreakers: ServiceType -> the breaker's fields
    calls,   \* direct execute() invocations in progress: CallIds -> position
    last,    \* what the direct call on the breaker that finished last
             \* (execute() or a run of getStats()) gave its caller
    reqs,    \* the inbound proxied requests: ReqIds -> exchange
    healthCache,          \* healthCache.get('aggregated')
    ongoingHealthChecks,  \* the registry of pending checks, by service
    refreshes,   \* performConcurrentHealthCheck calls awaiting their checks,
                 \* oldest first
    individual,  \* ServiceType -> a /health/<service> request awaits the check
    sent         \* the health responses written in the latest turn

proxyVars == <<reqs>>
healthVars == <<healthCache, ongoingHealthChecks, refreshes, individual, sent>>
vars == <<now, cb, calls, last, reqs, healthCache, ongoingHealthChecks,
          refreshes, individual, sent>>

(***************************************************************************)
(* CircuitBreaker                                                          *)
(***************************************************************************)
\* field initialisers of class CircuitBreaker
NewBreaker ==
    [state |-> CLOSED, failureCount |-> 0, successCount |-> 0,
     lastFailureTime |-> Unset, lastSuccessTime |-> Unset, requestCount |-> 0]

\* shouldAttemptReset() comparing the cooldown with `>` instead of `>=`
shouldAttemptReset_Strict(b) ==
    IF b.lastFailureTime = Unset
    THEN FALSE
    ELSE (now - b.lastFailureTime) > resetTimeout

\* shouldAttemptReset() reading config.timeout instead of config.resetTimeout
shouldAttemptReset_WrongField(b) ==
    IF b.lastFailureTime = Unset
    THEN FALSE
    ELSE (now - b.lastFailureTime) >= timeout

\* private shouldAttemptReset(): boolean
shouldAttemptReset(b) ==
    IF b.lastFailureTime = Unset
    THEN FALSE
    ELSE (now - b.lastFailureTime) >= resetTimeout

\* failureRate >= errorThreshold, with
\* failureRate = failureCount / Math.max(requestCount, 1) * 100.
\* The quotient is compared without rounding: the only ratios at which
\* IEEE division could matter are those equal to errorThreshold / 100 = 1/2,
\* which is exact in binary floating point.
failureRateReached(b) ==
    b.failureCount * 100 >= errorThreshold * Max(b.requestCount, 1)

\* onSuccess() closing the breaker whatever state it is in
onSuccess_ClosesAny(b) ==
    [b EXCEPT !.failureCount = 0,
              !.successCount = @ + 1,
              !.lastSuccessTime = now,
              !.state = CLOSED]

\* onSuccess() whose increment of successCount is lost
onSuccess_LostUpdate(b) ==
    LET b1 == [b EXCEPT !.failureCount = 0,
                        !.lastSuccessTime = now]
    IN  IF b1.state = HALF_OPEN THEN [b1 EXCEPT !.state = CLOSED] ELSE b1

\* onSuccess() without `this.failureCount = 0`
onSuccess_KeepFailures(b) ==
    LET b1 == [b EXCEPT !.successCount = @ + 1,
                        !.lastSuccessTime = now]
    IN  IF b1.state = HALF_OPEN THEN [b1 EXCEPT !.state = CLOSED] ELSE b1

\* private onSuccess(): void
onSuccess(b) ==
    LET b1 == [b EXCEPT !.failureCount = 0,
                        !.successCount = @ + 1,
                        !.lastSuccessTime = now]
    IN  IF b1.state = HALF_OPEN THEN [b1 EXCEPT !.state = CLOSED] ELSE b1

\* onFailure() without `this.lastFailureTime = Date.now()`
onFailure_KeepTime(b) ==
    LET b1 == [b EXCEPT !.failureCount = @ + 1]
    IN  IF b1.failureCount >= minFailures /\ failureRateReached(b1)
        THEN [b1 EXCEPT !.state = OPEN]
        ELSE b1

\* onFailure() opening on the count alone, without the failure rate
onFailure_CountOnly(b) ==
    LET b1 == [b EXCEPT !.failureCount = @ + 1,
                        !.lastFailureTime = now]
    IN  IF b1.failureCount >= minFailures
        THEN [b1 EXCEPT !.state = OPEN]
        ELSE b1

\* private onFailure(): void
\* onFailure() that reopens a half-open breaker on any failure
onFailure_HalfOpenReopens(b) ==
    LET b1 == [b EXCEPT !.failureCount = @ + 1,
                        !.lastFailureTime = now]
    IN  IF \/ b.state = HALF_OPEN
           \/ b1.failureCount >= minFailures /\ failureRateReached(b1)
        THEN [b1 EXCEPT !.state = OPEN]
        ELSE b1

onFailure(b) ==
    LET b1 == [b EXCEPT !.failureCount = @ + 1,
                        !.lastFailureTime = now]
    IN  IF b1.failureCount >= minFailures /\ failureRateReached(b1)
        THEN [b1 EXCEPT !.state = OPEN]
        ELSE b1

\* execute() counting the request after the open check, so that a call
\* refused by the open breaker is not counted
executeAdmission_CountAfterCheck(b) ==
    IF b.state = OPEN
    THEN IF shouldAttemptReset(b)
         THEN [cb |-> [b EXCEPT !.state = HALF_OPEN,
                                !.requestCount = @ + 1],
               admitted |-> TRUE]
         ELSE [cb |-> b, admitted |-> FALSE]
    ELSE [cb |-> [b EXCEPT !.requestCount = @ + 1], admitted |-> TRUE]

\* execute(), from its entry to the try block: requestCount++, then the
\* open check.  Yields the breaker's new fields and whether the call is
\* admitted (FALSE: it throws CircuitBreakerOpenError).
executeAdmission(b) ==
    LET b1 == [b EXCEPT !.requestCount = @ + 1]
    IN  IF b1.state = OPEN
        THEN IF shouldAttemptReset(b1)
             THEN [cb |-> [b1 EXCEPT !.state = HALF_OPEN], admitted |-> TRUE]
             ELSE [cb |-> b1, admitted |-> FALSE]
        ELSE [cb |-> b1, admitted |-> TRUE]

\* getStats() with failureCount and successCount taken from each other
getStats_Swapped(b) ==
    [state |-> b.state, failureCount |-> b.successCount,
     successCount |-> b.failureCount, lastFailureTime |-> b.lastFailureTime,
     lastSuccessTime |-> b.lastSuccessTime, requestCount |-> b.requestCount]

\* getStats(): CircuitBreakerStats
getStats(b) ==
    [state |-> b.state, failureCount |-> b.failureCount,
     successCount |-> b.successCount, lastFailureTime |-> b.lastFailureTime,
     lastSuccessTime |-> b.lastSuccessTime, requestCount |-> b.requestCount]

(***************************************************************************)
(* The execute() invocations that have not finished.                       *)
(*   pc      "free"       the slot holds no invocation                     *)
(*           "racing"     awaiting Promise.race([operation(), timeout])    *)
(*           "abandoned"  the timer won the race; the operation, which is  *)
(*                        not aborted, is still running                    *)
(*   invoked how many times execute called operation()                     *)
(*   start   Date.now() when the race began (the timer is due at           *)
(*           start + timeout)                                              *)
(* `last` is what the most recently finished of them gave its caller.      *)
(***************************************************************************)
FreeCall ==
    [pc |-> "free", svc |-> CORE_DATA, start |-> Unset, invoked |-> 0]

NoResult == [svc |-> CORE_DATA, result |-> "none", invoked |-> 0]

\* the call record right after execute()'s synchronous part: the operation
\* is invoked once, inside Promise.race([...]), only if the call is admitted
EnteredCall(s, adm) ==
    IF adm.admitted
    THEN [pc |-> "racing", svc |-> s, start |-> now, invoked |-> 1]
    ELSE FreeCall

\* what the caller of execute() has in hand right after the synchronous
\* part: nothing yet, or the CircuitBreakerOpenError thrown at line 54
EnteredResult(s, adm) ==
    IF adm.admitted
    THEN last
    ELSE [svc |-> s, result |-> "CircuitBreakerOpenError", invoked |-> 0]

\* the result of a race that settled
Settled(c, r) == [svc |-> calls[c].svc, result |-> r, invoked |-> calls[c].invoked]

\* the lowest free slot takes the next invocation
NextFree(c) ==
    /\ calls[c].pc = "free"
    /\ \A d \in CallIds : d < c => calls[d].pc # "free"

(***************************************************************************)
(* The circuit-breaker proxy (createCircuitBreakerProxyFixed).             *)
(* One inbound request:                                                    *)
(*   pc        "free", "awaiting" (await circuitBreaker.execute), "done"   *)
(*             (the middleware function returned)                          *)
(*   race      Promise.race inside execute: "none", "racing", "settled"    *)
(*   promise   the promise of the guarded operation: "none" (never         *)
(*             created), "pending", "resolved", "rejected"                 *)
(*   opTimer   operationTimeout is armed                                   *)
(*   upstream  the exchange http-proxy runs with the target: "none",       *)
(*             "pending", "streaming" (response being piped), "ended",     *)
(*             "failed"                                                    *)
(*   responseSent  ResponseGuard.responseSent                              *)
(*   headersSent, finished  res.headersSent, res.finished                  *)
(*   writes    how many times a status line was written to res             *)
(*   status, body  the response first written                              *)
(*   sendOnce  what the handler's responseGuard.sendOnce call returned:    *)
(*             "none" (not called), "sent" (true), "skipped" (false)       *)
(*   payload   the entry of fallbackResponses spread into the body sent,   *)
(*             "none" when the body is not a fallback                      *)
(*   circuit_breaker  the state member of the circuit_breaker object of    *)
(*             the body sent, "none" when the body has no such member      *)
(***************************************************************************)
FreeRequest ==
    [pc |-> "free", svc |-> CORE_DATA, race |-> "none", start |-> Unset,
     promise |-> "none", opTimer |-> FALSE, upstream |-> "none",
     responseSent |-> FALSE, headersSent |-> FALSE, finished |-> FALSE,
     writes |-> 0, status |-> 0, body |-> "none", sendOnce |-> "none",
     payload |-> "none", circuit_breaker |-> "none"]

\* the `timeout` argument of createCircuitBreakerProxy in setupRoutes
serviceTimeout(s) ==
    CASE s = CORE_DATA -> coreDataTimeout
      [] s = FACE_RECOGNITION -> faceRecognitionTimeout
      [] s = CAMERA_STREAM -> cameraStreamTimeout

\* res.end as replaced by protectedProxy: clearTimeout(operationTimeout);
\* resolve(); originalEnd.call(...).  Before the replacement (the operation
\* never ran) it is the plain res.end.
end(q) ==
    [q EXCEPT !.finished = TRUE,
              !.opTimer = FALSE,
              !.promise = IF @ = "pending" THEN "resolved" ELSE @]

\* res.status(statusCode).json(body): the status line and headers are
\* written and the response ended
statusJson(q, statusCode, body) ==
    end([q EXCEPT !.writes = @ + 1,
                  !.status = IF q.writes = 0 THEN statusCode ELSE @,
                  !.body = IF q.writes = 0 THEN body ELSE @,
                  !.headersSent = TRUE])

\* ResponseGuard.isResponseSent()
isResponseSent(q) == q.responseSent \/ q.headersSent

\* ResponseGuard.sendOnce with only the flag of the guard, not res.headersSent
sendOnce_FlagOnly(q, statusCode, body) ==
    IF q.responseSent
    THEN [q EXCEPT !.sendOnce = "skipped"]
    ELSE [statusJson(q, statusCode, body) EXCEPT !.responseSent = TRUE,
                                                 !.sendOnce = "sent"]

\* ResponseGuard.sendOnce(statusCode, body): boolean
sendOnce(q, statusCode, body) ==
    IF q.responseSent \/ q.headersSent
    THEN [q EXCEPT !.sendOnce = "skipped"]
    ELSE [statusJson(q, statusCode, body) EXCEPT !.responseSent = TRUE,
                                                 !.sendOnce = "sent"]

\* A URL path is the sequence of its segments: /api/persons/123 is
\* <<"api", "persons", "123">>.
\* the path each proxy is mounted on with app.use
mountPath(s) ==
    CASE s = CORE_DATA -> <<"api", "persons">>
      [] s = FACE_RECOGNITION -> <<"api", "recognize">>
      [] s = CAMERA_STREAM -> <<"api", "cameras">>

\* req.path inside a middleware mounted with app.use(mountPath, ...):
\* Express strips the mount path from req.url for the mounted handlers
reqPath(url, s) == SubSeq(url, Len(mountPath(s)) + 1, Len(url))

\* path.includes('/' + segment), for segments none of which is a prefix of
\* another
includes(path, segment) == \E i \in DOMAIN path : path[i] = segment

\* determineFallbackKey(path: string): string
determineFallbackKey(path) ==
    IF includes(path, "persons") THEN "persons"
    ELSE IF includes(path, "recognize") \/ includes(path, "process")
    THEN "recognition"
    ELSE IF includes(path, "cameras") THEN "cameras"
    ELSE "health"

\* fallbackResponses[serviceType]: per key, which entry it is and its
\* statusCode member (0: the entry has none)
fallbackResponses(s) ==
    CASE s = CORE_DATA ->
           [persons |-> [entry |-> "persons", statusCode |-> 503],
            health |-> [entry |-> "health", statusCode |-> 0]]
      [] s = FACE_RECOGNITION ->
           [recognition |-> [entry |-> "recognition", statusCode |-> 503],
            health |-> [entry |-> "health", statusCode |-> 0]]
      [] s = CAMERA_STREAM ->
           [cameras |-> [entry |-> "cameras", statusCode |-> 503],
            health |-> [entry |-> "health", statusCode |-> 0]]

\* the catch block of the middleware for CircuitBreakerOpenError, for the
\* request of URL path url: fallbackKey = determineFallbackKey(req.path);
\* fallbackResponse = fallback[fallbackKey] || fallback.health;
\* sendOnce(fallbackResponse.statusCode || 503, {...fallbackResponse,
\* circuit_breaker: {state: 'open', ...}})
sendFallback(q, url) ==
    LET fallback == fallbackResponses(q.svc)
        fallbackKey == determineFallbackKey(reqPath(url, q.svc))
        fallbackResponse == IF fallbackKey \in DOMAIN fallback
                            THEN fallback[fallbackKey]
                            ELSE fallback.health
        statusCode == IF fallbackResponse.statusCode # 0
                      THEN fallbackResponse.statusCode
                      ELSE serviceUnavailable
        sq == sendOnce(q, statusCode, "fallback")
    IN  IF sq.sendOnce = "sent"
        THEN [sq EXCEPT !.payload = fallbackResponse.entry,
                        !.circuit_breaker = "open"]
        ELSE sq

\* the URL paths of the requests sent to the proxy of s: its mount path
\* followed by nothing or by one segment
PathTails ==
    {<< >>, <<"123">>, <<"persons">>, <<"recognize">>, <<"process">>,
     <<"cameras">>}
Inbound(s) == {mountPath(s) \o tail : tail \in PathTails}

\* the generic 503 written without asking the guard
sendUnavailable_Unguarded(q) ==
    [statusJson(q, serviceUnavailable, "unavailable")
        EXCEPT !.responseSent = TRUE, !.sendOnce = "sent"]

\* the catch block of the middleware for any other error:
\* sendOnce(503, {error: 'Service Temporarily Unavailable', ...})
sendUnavailable(q) == sendOnce(q, serviceUnavailable, "unavailable")

\* onError of the base proxy: if (!res.headersSent) res.status(503).json(...)
onError(q) ==
    IF ~q.headersSent THEN statusJson(q, serviceUnavailable, "proxyError") ELSE q

\* http-proxy on the target's response: the status line and headers are
\* copied to res unless res.headersSent, and the body is piped unless
\* res.finished
pipeResponse(q, code) ==
    LET q1 == IF ~q.headersSent
              THEN [q EXCEPT !.writes = @ + 1,
                             !.status = IF q.writes = 0 THEN code ELSE @,
                             !.body = IF q.writes = 0 THEN "upstream" ELSE @,
                             !.headersSent = TRUE]
              ELSE q
    IN  [q1 EXCEPT !.upstream = IF q.finished THEN "ended" ELSE "streaming"]

\* `start` is read only by the two timers: once neither is pending it is
\* forgotten
Lapse(q) ==
    IF q.race # "racing" /\ ~q.opTimer THEN [q EXCEPT !.start = Unset] ELSE q

\* a timer of the request is due: the breaker's timeoutPromise or the
\* handler's operationTimeout
ProxyTimerDue(r) ==
    \/ reqs[r].race = "racing" /\ now - reqs[r].start >= timeout
    \/ reqs[r].opTimer /\ now - reqs[r].start >= serviceTimeout(reqs[r].svc)

\* a request slot takes a new request once the previous exchange is over
Recyclable(r) ==
    /\ reqs[r].pc \in {"free", "done"}
    /\ reqs[r].upstream \notin {"pending", "streaming"}
    /\ ~reqs[r].opTimer

(***************************************************************************)
(* The optimized health routes (routes/healthOptimized.ts).                *)
(*   healthCache   the one entry 'aggregated' of the map: absent, or the   *)
(*                 aggregate stored last with the Date.now() of the store  *)
(*   ongoingHealthChecks  per service, whether a check's promise is        *)
(*                 registered and when its race inside execute() began     *)
(*   refreshes     each performConcurrentHealthCheck call that awaits      *)
(*                 Promise.allSettled: who called it ("read": the GET      *)
(*                 /health handler awaits it; "background":                *)
(*                 refreshHealthCache, awaited by nobody) and, per         *)
(*                 service, the result it has or "pending"                 *)
(*   sent          the responses written during the latest turn            *)
(***************************************************************************)
HealthStatus == {"healthy", "degraded", "unhealthy"}

NoData == [status |-> "none", services |-> [s \in ServiceType |-> "none"]]
NoSnapshot == [present |-> FALSE, data |-> NoData, timestamp |-> Unset]
NoCheck == [pending |-> FALSE, start |-> Unset]

\* createFailedHealth(...).status
createFailedHealth == "unhealthy"

\* createFailedHealth(...).error for an error of the given message:
\* error?.message || 'Unknown error'.  The empty string stands for a result
\* without an error member.
failedHealthError(message) ==
    IF message = "" THEN "Unknown error" ELSE message

\* the message of CircuitBreakerOpenError and of the error timeoutPromise
\* rejects with (the service name and the number of ms left out)
openErrorMessage == "Circuit breaker is open"
timeoutErrorMessage == "Operation timeout"

\* what the probe request of a health check can end with, retries done: a
\* response with its status code, or no response at all (connection
\* refused, timeout, DNS failure), with the message of the error
ProbeOutcomes ==
    {[kind |-> "response", status |-> 200, message |-> ""],
     [kind |-> "response", status |-> 204, message |-> ""],
     [kind |-> "response", status |-> 500,
      message |-> "Request failed with status code 500"],
     [kind |-> "transport", status |-> 0, message |-> "connect ECONNREFUSED"]}

\* httpClient.get fulfils: the axios instance is created without
\* validateStatus, so every status outside 200..299 rejects, as does a
\* request without a response
getFulfils(outcome) ==
    /\ outcome.kind = "response"
    /\ outcome.status >= 200
    /\ outcome.status < 300

\* performSingleHealthCheck: the HealthCheckResult it returns (it never
\* throws): response.status === 200 ? 'healthy' : 'degraded' after the
\* await, createFailedHealth in the catch block
performSingleHealthCheck(outcome) ==
    IF getFulfils(outcome)
    THEN [status |-> IF outcome.status = 200 THEN "healthy" ELSE "degraded",
          error |-> ""]
    ELSE [status |-> createFailedHealth,
          error |-> failedHealthError(outcome.message)]

\* the status code taken as 200 for every status but 'unhealthy'
statusCodeOf_DegradedOk(status) ==
    IF status = "unhealthy" THEN serviceUnavailable ELSE ok
\* const statusCode = status === 'healthy' ? 200 : 503
statusCodeOf(status) == IF status = "healthy" THEN ok ELSE serviceUnavailable

\* the overall status taken as healthy as soon as one service is
overallStatus_AnyHealthy(services) ==
    LET healthyCount == Cardinality({s \in ServiceType : services[s] = "healthy"})
    IN  IF healthyCount > 0 THEN "healthy" ELSE "unhealthy"

\* performConcurrentHealthCheck, after Promise.allSettled: healthyCount and
\* the overall status
overallStatus(services) ==
    LET healthyCount == Cardinality({s \in ServiceType : services[s] = "healthy"})
        totalCount == Cardinality(ServiceType)
    IN  IF healthyCount = totalCount THEN "healthy"
        ELSE IF healthyCount > 0 THEN "degraded"
        ELSE "unhealthy"

\* the AggregatedHealthResponse performConcurrentHealthCheck returns
aggregate(results) ==
    [status |-> overallStatus(results), services |-> results]

\* cacheAge of the GET /health handler (Infinity without a snapshot is the
\* `present` flag)
cacheAge == now - healthCache.timestamp
\* isWithinTTL with the comparison inverted
servesFresh_Inverted == healthCache.present /\ cacheAge > cacheTtl
\* cached && isWithinTTL
servesFresh == healthCache.present /\ cacheAge < cacheTtl
\* isStale computed from one TTL instead of two
servesStale_SingleTtl == healthCache.present /\ ~(cacheAge > cacheTtl)
\* cached && !isStale, where isStale = cacheAge > cacheTtl * 2
servesStale == healthCache.present /\ ~(cacheAge > cacheTtl * 2)

\* the cache_info member of a /health body: absent, or the object literal
\* the handler adds (age_ms left out)
NoCacheInfo ==
    [present |-> FALSE, served_from_cache |-> FALSE, freshness |-> "absent"]
cacheInfo(served_from_cache, freshness) ==
    [present |-> TRUE, served_from_cache |-> served_from_cache,
     freshness |-> freshness]

\* the responses of GET /health: res.status(statusCode).json(cached.data) on
\* the fresh branch, {...cached.data, cache_info} on the stale branch and
\* {...healthData, response_time_ms, cache_info} after a refresh
freshResponse ==
    [route |-> "health", via |-> "fresh",
     statusCode |-> statusCodeOf(healthCache.data.status),
     data |-> healthCache.data,
     cache_info |-> NoCacheInfo]
staleResponse ==
    [route |-> "health", via |-> "stale",
     statusCode |-> statusCodeOf(healthCache.data.status),
     data |-> healthCache.data,
     cache_info |-> cacheInfo(TRUE, "stale")]
liveResponse(healthData) ==
    [route |-> "health", via |-> "live",
     statusCode |-> statusCodeOf(healthData.status),
     data |-> healthData,
     cache_info |-> cacheInfo(FALSE, "live")]
\* the response of GET /health/<service>
individualResponse(s, status, error) ==
    [route |-> s, statusCode |-> statusCodeOf(status), status |-> status,
     error |-> error]

\* ongoingHealthChecks.get(cacheKey), never finding an entry
ongoing_Never(s) == FALSE
\* const ongoing = ongoingHealthChecks.get(cacheKey); if (ongoing) ...
ongoing(s) == ongoingHealthChecks[s].pending

\* checkServiceHealthWithCircuitBreaker without the .catch after execute():
\* the rejection of a refused call reaches the caller
checkServiceHealthWithCircuitBreaker_NoCatch(s) ==
    IF ongoing(s)
    THEN [cb |-> cb[s], check |-> ongoingHealthChecks[s],
          result |-> "pending", error |-> ""]
    ELSE LET adm == executeAdmission(cb[s])
         IN  IF adm.admitted
             THEN [cb |-> adm.cb,
                   check |-> [pending |-> TRUE, start |-> now],
                   result |-> "pending", error |-> ""]
             ELSE [cb |-> adm.cb, check |-> NoCheck,
                   result |-> "rejected", error |-> ""]

\* a health check that consults a breaker of its own instead of the
\* entry of serviceCircuitBreakers the proxy uses: it never sees what
\* proxied traffic recorded
checkServiceHealthWithCircuitBreaker_Unshared(s) ==
    IF ongoing(s)
    THEN [cb |-> cb[s], check |-> ongoingHealthChecks[s],
          result |-> "pending", error |-> ""]
    ELSE [cb |-> cb[s],
          check |-> [pending |-> TRUE, start |-> now],
          result |-> "pending", error |-> ""]

\* checkServiceHealthWithCircuitBreaker without the lookup of the
\* registry: every caller enters the breaker
checkServiceHealthWithCircuitBreaker_NoJoin(s) ==
    LET adm == executeAdmission(cb[s])
    IN  IF adm.admitted
        THEN [cb |-> adm.cb,
              check |-> IF ongoing(s) THEN ongoingHealthChecks[s]
                        ELSE [pending |-> TRUE, start |-> now],
              result |-> "pending", error |-> ""]
        ELSE [cb |-> adm.cb, check |-> ongoingHealthChecks[s],
              result |-> createFailedHealth,
              error |-> failedHealthError(openErrorMessage)]

\* checkServiceHealthWithCircuitBreaker(s), synchronous part and the
\* microtasks that follow it: join the registered check, or call execute();
\* an admitted call registers its promise, a refused one is caught into
\* createFailedHealth and its registration is deleted in the same turn.
\* Yields the breaker, the registry entry and what the caller holds (the
\* status and the error member of the result, or a pending promise).
checkServiceHealthWithCircuitBreaker(s) ==
    IF ongoing(s)
    THEN [cb |-> cb[s], check |-> ongoingHealthChecks[s],
          result |-> "pending", error |-> ""]
    ELSE LET adm == executeAdmission(cb[s])
         IN  IF adm.admitted
             THEN [cb |-> adm.cb,
                   check |-> [pending |-> TRUE, start |-> now],
                   result |-> "pending", error |-> ""]
             ELSE [cb |-> adm.cb, check |-> NoCheck,
                   result |-> createFailedHealth,
                   error |-> failedHealthError(openErrorMessage)]

\* a performConcurrentHealthCheck call has all three results
Complete(r) == \A s \in ServiceType : r.results[s] # "pending"

\* the refreshes of rs that completed in this turn, oldest first
Completed(rs) == SelectSeq(rs, Complete)
\* those still awaiting a check
Awaiting(r) == ~Complete(r)

\* a store made as soon as a refresh has any result, before its
\* Promise.allSettled resumes
storeCompleted_Partial(rs) ==
    IF rs = << >>
    THEN healthCache
    ELSE [present |-> TRUE,
          data |-> aggregate(rs[Len(rs)].results),
          timestamp |-> now]

\* the store made only by the refreshes a reader awaits: refreshHealthCache
\* without its healthCache.set
storeCompleted_ReadersOnly(rs) ==
    LET done == SelectSeq(Completed(rs), LAMBDA r : r.kind = "read")
    IN  IF done = << >>
        THEN healthCache
        ELSE [present |-> TRUE,
              data |-> aggregate(done[Len(done)].results),
              timestamp |-> now]

\* healthCache.set('aggregated', {data, timestamp: Date.now()}) by every
\* refresh of rs that completed, in the order their awaits resume: the
\* store of the youngest stays
storeCompleted(rs) ==
    LET done == Completed(rs)
    IN  IF done = << >>
        THEN healthCache
        ELSE [present |-> TRUE,
              data |-> aggregate(done[Len(done)].results),
              timestamp |-> now]

\* the live responses of the GET /health handlers whose refresh completed
liveResponses(rs) ==
    {liveResponse(aggregate(rs[i].results)) :
        i \in {j \in DOMAIN rs : Complete(rs[j]) /\ rs[j].kind = "read"}}

\* a check is registered and its breaker timer is due
CheckTimerDue(s) ==
    /\ ongoingHealthChecks[s].pending
    /\ now - ongoingHealthChecks[s].start >= timeout

TypeOK ==
    /\ now \in {k * Tick : k \in 1..MaxTicks}
    /\ \A s \in ServiceType :
          /\ cb[s].state \in CircuitState
          /\ cb[s].failureCount \in Nat
          /\ cb[s].successCount \in Nat
          /\ cb[s].requestCount \in 0..MaxRequests
    /\ \A c \in CallIds :
          /\ calls[c].pc \in {"free", "racing", "abandoned"}
          /\ calls[c].invoked \in 0..1
    /\ last.result \in {"none", "returned", "CircuitBreakerOpenError",
                        "OperationError", "Timeout", "stats"}
    /\ healthCache.present \in BOOLEAN
    /\ \A s \in ServiceType :
          /\ ongoingHealthChecks[s].pending \in BOOLEAN
          /\ individual[s] \in BOOLEAN
    /\ Len(refreshes) <= MaxRefreshes
    /\ \A i \in DOMAIN refreshes :
          /\ refreshes[i].kind \in {"read", "background"}
          /\ \A s \in ServiceType :
                refreshes[i].results[s] \in HealthStatus \cup {"pending"}

Init ==
    /\ now = Tick
    /\ cb = [s \in ServiceType |-> NewBreaker]
    /\ calls = [c \in CallIds |-> FreeCall]
    /\ last = NoResult
    /\ reqs = [r \in ReqIds |-> FreeRequest]
    /\ healthCache = NoSnapshot
    /\ ongoingHealthChecks = [s \in ServiceType |-> NoCheck]
    /\ refreshes = << >>
    /\ individual = [s \in ServiceType |-> FALSE]
    /\ sent = {}

(***************************************************************************)
(* Actions on one breaker                                                  *)
(***************************************************************************)
\* the breaker that the direct callers of execute() drive
Subject == CORE_DATA

\* async execute<T>(operation): entry, up to `await Promise.race`
execute(c) ==
    /\ NextFree(c)
    /\ cb[Subject].requestCount < MaxRequests
    /\ (\E d \in CallIds : calls[d].pc = "racing")
          => cb[Subject].requestCount < MaxOverlapRequests
    /\ LET adm == executeAdmission(cb[Subject])
       IN  /\ cb' = [cb EXCEPT ![Subject] = adm.cb]
           /\ calls' = [calls EXCEPT ![c] = EnteredCall(Subject, adm)]
           /\ last' = EnteredResult(Subject, adm)
    /\ UNCHANGED <<now, proxyVars, healthVars>>

\* operation() fulfils before the timer fires: onSuccess(); return result
OperationFulfils(c) ==
    /\ calls[c].pc = "racing"
    /\ cb' = [cb EXCEPT ![calls[c].svc] = onSuccess(@)]
    /\ calls' = [calls EXCEPT ![c] = FreeCall]
    /\ last' = Settled(c, "returned")
    /\ UNCHANGED <<now, proxyVars, healthVars>>

\* operation() rejects before the timer fires: onFailure(); throw error
OperationRejects(c) ==
    /\ calls[c].pc = "racing"
    /\ cb' = [cb EXCEPT ![calls[c].svc] = onFailure(@)]
    /\ calls' = [calls EXCEPT ![c] = FreeCall]
    /\ last' = Settled(c, "OperationError")
    /\ UNCHANGED <<now, proxyVars, healthVars>>

\* the setTimeout callback of timeoutPromise() runs first: onFailure();
\* throw error.  The operation is not aborted.
TimerFires(c) ==
    /\ calls[c].pc = "racing"
    /\ now - calls[c].start >= timeout
    /\ cb' = [cb EXCEPT ![calls[c].svc] = onFailure(@)]
    /\ calls' = [calls EXCEPT ![c].pc = "abandoned", ![c].start = Unset]
    /\ last' = Settled(c, "Timeout")
    /\ UNCHANGED <<now, proxyVars, healthVars>>

\* execute() awaiting the operation after its timeout was recorded, and
\* recording the outcome of the operation as well
LateCompletion_RecordsAgain(c) ==
    /\ calls[c].pc = "abandoned"
    /\ calls' = [calls EXCEPT ![c] = FreeCall]
    /\ cb' = [cb EXCEPT ![calls[c].svc] = onSuccess(@)]
    /\ UNCHANGED <<now, last, proxyVars, healthVars>>

\* the operation of a call that already timed out completes (fulfilled or
\* rejected): the race is settled, so its outcome reaches nobody
LateCompletion(c) ==
    /\ calls[c].pc = "abandoned"
    /\ calls' = [calls EXCEPT ![c] = FreeCall]
    /\ UNCHANGED <<now, cb, last, proxyVars, healthVars>>

\* reset(): void
reset ==
    /\ cb[Subject] # NewBreaker
    /\ cb' = [cb EXCEPT ![Subject] = NewBreaker]
    /\ UNCHANGED <<now, calls, last, proxyVars, healthVars>>

\* a caller reads the statistics MaxStatsCalls times in a row within one
\* turn (as onProxyRes does for the X-Circuit-State header and for its log
\* entry): getStats() assigns no field and returns an object literal of
\* the six fields.  The caller holds the snapshots, in the order of the
\* calls.
readStats ==
    /\ last' = [svc |-> Subject, result |-> "stats", invoked |-> 0,
                stats |-> [i \in 1..MaxStatsCalls |-> getStats(cb[Subject])]]
    /\ UNCHANGED <<now, cb, calls, proxyVars, healthVars>>

\* Date.now() advances.  A timer that is due runs before the clock moves on.
AdvanceClock ==
    /\ now < MaxTicks * Tick
    /\ \A c \in CallIds : calls[c].pc = "racing" => now - calls[c].start < timeout
    /\ \A r \in ReqIds : ~ProxyTimerDue(r)
    /\ \A s \in ServiceType : ~CheckTimerDue(s)
    /\ now' = now + Tick
    /\ sent' = {}
    /\ UNCHANGED <<cb, calls, last, proxyVars, healthCache,
                   ongoingHealthChecks, refreshes, individual>>

Next ==
    \/ \E c \in CallIds : execute(c)
    \/ \E c \in CallIds : OperationFulfils(c)
    \/ \E c \in CallIds : OperationRejects(c)
    \/ \E c \in CallIds : TimerFires(c)
    \/ \E c \in CallIds : LateCompletion(c)
    \/ reset
    \/ AdvanceClock

Spec == Init /\ [][Next]_vars

\* the direct callers of execute() together with a reader of the statistics
NextStats ==
    \/ \E c \in CallIds : execute(c)
    \/ \E c \in CallIds : OperationFulfils(c)
    \/ \E c \in CallIds : OperationRejects(c)
    \/ \E c \in CallIds : TimerFires(c)
    \/ \E c \in CallIds : LateCompletion(c)
    \/ reset
    \/ readStats
    \/ AdvanceClock

SpecStats == Init /\ [][NextStats]_vars

(***************************************************************************)
(* Actions of the circuit-breaker proxy                                    *)
(***************************************************************************)
\* the proxied traffic of one behaviour goes to one service
SoleTarget(s) == \A t \in ServiceType \ {s} : cb[t].requestCount = 0

\* await circuitBreaker.execute(...) settles: the breaker's accounting, and
\* the rest of the middleware (nothing after a success; the catch block
\* after a failure)
ExecuteReturns(r, q) ==
    /\ cb' = [cb EXCEPT ![q.svc] = onSuccess(@)]
    /\ reqs' = [reqs EXCEPT ![r] =
                  Lapse([q EXCEPT !.race = "settled", !.pc = "done"])]

\* err is the error execute() throws: it is not a CircuitBreakerOpenError, so
\* the catch block takes its generic branch whichever error it is
ExecuteThrows(r, q, err) ==
    /\ cb' = [cb EXCEPT ![q.svc] = onFailure(@)]
    /\ reqs' = [reqs EXCEPT ![r] =
                  Lapse([sendUnavailable([q EXCEPT !.race = "settled"])
                           EXCEPT !.pc = "done"])]

\* the middleware returned by createCircuitBreakerProxyFixed, up to its
\* await: new ResponseGuard, execute's admission, and either the guarded
\* operation started (timer armed, res.end replaced, baseProxy called) or
\* the fallback sent.  url is the URL path of the request.
protectedProxy(r, s, url) ==
    /\ LET adm == executeAdmission(cb[s])
           q0 == [FreeRequest EXCEPT !.svc = s]
       IN  /\ cb' = [cb EXCEPT ![s] = adm.cb]
           /\ reqs' = [reqs EXCEPT ![r] =
                IF adm.admitted
                THEN [q0 EXCEPT !.pc = "awaiting", !.race = "racing",
                                !.start = now, !.promise = "pending",
                                !.opTimer = TRUE, !.upstream = "pending"]
                ELSE [sendFallback(q0, url) EXCEPT !.pc = "done"]]
    /\ UNCHANGED <<now, calls, last, healthVars>>

\* a request for service s arrives at the gateway while slot r is free
ProxyRequest(r, s, url) ==
    /\ Recyclable(r)
    /\ \A d \in ReqIds : d < r => ~Recyclable(d)
    /\ SoleTarget(s)
    /\ cb[s].requestCount < MaxProxyRequests
    /\ (\E d \in ReqIds : ~Recyclable(d))
          => cb[s].requestCount < MaxProxyOverlap
    /\ protectedProxy(r, s, url)

\* the target answers: http-proxy copies status and headers and pipes
UpstreamResponds(r, code) ==
    /\ reqs[r].upstream = "pending"
    /\ reqs' = [reqs EXCEPT ![r] = pipeResponse(@, code)]
    /\ UNCHANGED <<now, cb, calls, last, healthVars>>

\* the piped body ends: res.end() runs, resolving the operation
UpstreamEnds(r) ==
    /\ reqs[r].upstream = "streaming"
    /\ LET q == [end(reqs[r]) EXCEPT !.upstream = "ended"]
       IN  IF reqs[r].race = "racing"
           THEN ExecuteReturns(r, q)
           ELSE reqs' = [reqs EXCEPT ![r] = Lapse(q)] /\ UNCHANGED cb
    /\ UNCHANGED <<now, calls, last, healthVars>>

\* http-proxy emits 'error' (connection refused, reset, proxyTimeout):
\* onError answers 503 unless headers were sent; its res.end() resolves
\* the operation
UpstreamFails(r) ==
    /\ reqs[r].upstream \in {"pending", "streaming"}
    /\ LET q == [onError(reqs[r]) EXCEPT !.upstream = "failed"]
       IN  IF reqs[r].race = "racing" /\ q.promise = "resolved"
           THEN ExecuteReturns(r, q)
           ELSE reqs' = [reqs EXCEPT ![r] = Lapse(q)] /\ UNCHANGED cb
    /\ UNCHANGED <<now, calls, last, healthVars>>

\* baseProxy calls its callback with an error before proxying:
\* clearTimeout(operationTimeout); reject(error)
ProxyRejects(r) ==
    /\ reqs[r].upstream = "pending"
    /\ reqs[r].promise = "pending"
    /\ LET q == [reqs[r] EXCEPT !.upstream = "failed", !.opTimer = FALSE,
                                !.promise = "rejected"]
       IN  IF reqs[r].race = "racing"
           THEN ExecuteThrows(r, q, "OperationError")
           ELSE reqs' = [reqs EXCEPT ![r] = Lapse(q)] /\ UNCHANGED cb
    /\ UNCHANGED <<now, calls, last, healthVars>>

\* the operationTimeout callback: reject unless a response was sent
OperationTimeoutFires(r) ==
    /\ reqs[r].opTimer
    /\ now - reqs[r].start >= serviceTimeout(reqs[r].svc)
    /\ LET q0 == [reqs[r] EXCEPT !.opTimer = FALSE]
           rejects == ~isResponseSent(q0) /\ q0.promise = "pending"
           q == IF rejects THEN [q0 EXCEPT !.promise = "rejected"] ELSE q0
       IN  IF rejects /\ reqs[r].race = "racing"
           THEN ExecuteThrows(r, q, "OperationError")
           ELSE reqs' = [reqs EXCEPT ![r] = Lapse(q)] /\ UNCHANGED cb
    /\ UNCHANGED <<now, calls, last, healthVars>>

\* the breaker's timeoutPromise callback wins the race.  operationTimeout
\* was armed before it, so when both are due operationTimeout runs first.
ProxyTimerFires(r) ==
    /\ reqs[r].race = "racing"
    /\ now - reqs[r].start >= timeout
    /\ ~(reqs[r].opTimer /\ now - reqs[r].start >= serviceTimeout(reqs[r].svc))
    /\ ExecuteThrows(r, reqs[r], "Timeout")
    /\ UNCHANGED <<now, calls, last, healthVars>>

NextProxy ==
    \/ \E r \in ReqIds, s \in ServiceType :
          \E url \in Inbound(s) : ProxyRequest(r, s, url)
    \/ \E r \in ReqIds, code \in UpstreamStatus : UpstreamResponds(r, code)
    \/ \E r \in ReqIds : UpstreamEnds(r)
    \/ \E r \in ReqIds : UpstreamFails(r)
    \/ \E r \in ReqIds : ProxyRejects(r)
    \/ \E r \in ReqIds : OperationTimeoutFires(r)
    \/ \E r \in ReqIds : ProxyTimerFires(r)
    \/ AdvanceClock

SpecProxy == Init /\ [][NextProxy]_vars

(***************************************************************************)
(* Actions of the health routes                                            *)
(***************************************************************************)
\* the health checks that entered the breaker of s: its requestCount, less
\* the minFailures requests of the proxied traffic that tripped it before
\* the first health check (see InitTripped)
checksEntered(s) ==
    IF cb[s].requestCount >= minFailures
    THEN cb[s].requestCount - minFailures
    ELSE cb[s].requestCount

\* performConcurrentHealthCheck(), up to `await Promise.allSettled`: the
\* three checkServiceHealthWithCircuitBreaker calls.  `kind` is the caller.
\* A refresh none of whose checks is pending completes in the same turn.
StartRefresh(kind, responses) ==
    LET chk == [s \in ServiceType |-> checkServiceHealthWithCircuitBreaker(s)]
        r == [kind |-> kind, results |-> [s \in ServiceType |-> chk[s].result]]
        rs == Append(refreshes, r)
    IN  /\ Len(refreshes) < MaxRefreshes
        /\ \A s \in ServiceType :
              ~ongoing(s) => checksEntered(s) < MaxChecks
        /\ cb' = [s \in ServiceType |-> chk[s].cb]
        /\ ongoingHealthChecks' = [s \in ServiceType |-> chk[s].check]
        /\ refreshes' = SelectSeq(rs, Awaiting)
        /\ healthCache' = storeCompleted(rs)
        /\ sent' = responses \cup liveResponses(rs)

\* GET /health
HealthRead ==
    /\ IF servesFresh
       THEN /\ sent' = {freshResponse}
            /\ UNCHANGED <<cb, healthCache, ongoingHealthChecks, refreshes>>
       ELSE IF servesStale
       THEN StartRefresh("background", {staleResponse})
       ELSE StartRefresh("read", {})
    /\ UNCHANGED <<now, calls, last, proxyVars, individual>>

\* the handler createIndividualHealthEndpoint(s) returns, up to its await
\* and, when the check is refused, to its response
individualHealthEndpoint(s) ==
    LET chk == checkServiceHealthWithCircuitBreaker(s)
    IN  /\ cb' = [cb EXCEPT ![s] = chk.cb]
        /\ ongoingHealthChecks' = [ongoingHealthChecks EXCEPT ![s] = chk.check]
        /\ individual' = [individual EXCEPT ![s] = (chk.result = "pending")]
        /\ sent' = IF chk.result = "pending"
                   THEN {}
                   ELSE {individualResponse(s, chk.result, chk.error)}
        /\ UNCHANGED <<now, calls, last, proxyVars, healthCache, refreshes>>

\* GET /health/<service>
IndividualRead(s) ==
    /\ ~individual[s]
    /\ now <= MaxEndpointTicks * Tick
    /\ ~ongoing(s) => checksEntered(s) < MaxChecks
    /\ individualHealthEndpoint(s)

\* the cleanup registered with .then() instead of .finally() and on the
\* promise of execute() instead of the caught one: the registration of a
\* check that failed stays
Settle_KeepOnFailure(s, status, error) ==
    LET rs == [i \in DOMAIN refreshes |->
                 IF refreshes[i].results[s] = "pending"
                 THEN [refreshes[i] EXCEPT !.results[s] = status]
                 ELSE refreshes[i]]
    IN  /\ ongoingHealthChecks' =
              [ongoingHealthChecks EXCEPT
                 ![s] = IF error = failedHealthError(timeoutErrorMessage)
                        THEN @ ELSE NoCheck]
        /\ refreshes' = SelectSeq(rs, Awaiting)
        /\ healthCache' = storeCompleted(rs)
        /\ individual' = [individual EXCEPT ![s] = FALSE]
        /\ sent' = liveResponses(rs) \cup
                   (IF individual[s]
                    THEN {individualResponse(s, status, error)}
                    ELSE {})

\* the registered check of s settles with a result of the given status
\* and error member: the registration is
\* deleted, every caller awaiting it resumes with the same result, and the
\* refreshes this completes store their aggregate and answer their reader
Settle(s, status, error) ==
    LET rs == [i \in DOMAIN refreshes |->
                 IF refreshes[i].results[s] = "pending"
                 THEN [refreshes[i] EXCEPT !.results[s] = status]
                 ELSE refreshes[i]]
    IN  /\ ongoingHealthChecks' = [ongoingHealthChecks EXCEPT ![s] = NoCheck]
        /\ refreshes' = SelectSeq(rs, Awaiting)
        /\ healthCache' = storeCompleted(rs)
        /\ individual' = [individual EXCEPT ![s] = FALSE]
        /\ sent' = liveResponses(rs) \cup
                   (IF individual[s]
                    THEN {individualResponse(s, status, error)}
                    ELSE {})

\* performSingleHealthCheck returns before the breaker's timer is due,
\* the probe request having ended with `outcome`.  It never throws, so
\* execute() records a success whatever the outcome.
ProbeReturns(s, outcome) ==
    /\ ongoingHealthChecks[s].pending
    /\ ~CheckTimerDue(s)
    /\ cb' = [cb EXCEPT ![s] = onSuccess(@)]
    /\ Settle(s, performSingleHealthCheck(outcome).status,
                 performSingleHealthCheck(outcome).error)
    /\ UNCHANGED <<now, calls, last, proxyVars>>

\* the breaker's timer wins the race of a health check: onFailure(), and the
\* .catch of checkServiceHealthWithCircuitBreaker gives createFailedHealth
CheckTimerFires(s) ==
    /\ CheckTimerDue(s)
    /\ cb' = [cb EXCEPT ![s] = onFailure(@)]
    /\ Settle(s, createFailedHealth, failedHealthError(timeoutErrorMessage))
    /\ UNCHANGED <<now, calls, last, proxyVars>>

NextHealth ==
    \/ HealthRead
    \/ \E s \in ServiceType : IndividualRead(s)
    \/ \E s \in ServiceType, outcome \in ProbeOutcomes :
          ProbeReturns(s, outcome)
    \/ \E s \in ServiceType : CheckTimerFires(s)
    \/ AdvanceClock

SpecHealth == Init /\ [][NextHealth]_vars

\* the outcomes of a probe whose service either answers 200 or does not
\* answer at all
UpOrDown == {o \in ProbeOutcomes : o.status = ok \/ o.kind = "transport"}

\* the registered check of s settles: its probe returns or the breaker's
\* timer fires
CheckSettles(s) ==
    \/ \E outcome \in UpOrDown : ProbeReturns(s, outcome)
    \/ CheckTimerFires(s)

\* GET /health alone, with services that are up or down
NextRefresh ==
    \/ HealthRead
    \/ \E s \in ServiceType, outcome \in UpOrDown : ProbeReturns(s, outcome)
    \/ \E s \in ServiceType : CheckTimerFires(s)
    \/ AdvanceClock

\* The aggregate route with every registered check settling: the race
\* inside execute() is bounded by the timer of timeoutPromise(), so a
\* registered check does not stay pending for ever.  Nothing obliges a
\* client to send a request or the clock to advance.
SpecRefreshFair ==
    /\ Init
    /\ [][NextRefresh]_vars
    /\ \A s \in ServiceType : WF_vars(CheckSettles(s))

\* serviceCircuitBreakers is shared by the proxies and the health routes.
\* A breaker as five proxied requests, all of which failed at Date.now() =
\* Tick, leave it (the state SpecProxy reaches by five rejected requests)
TrippedBreaker ==
    [NewBreaker EXCEPT !.state = OPEN,
                       !.failureCount = minFailures,
                       !.requestCount = minFailures,
                       !.lastFailureTime = Tick]

\* the health routes start being called when proxied traffic has tripped
\* the breaker of one service
InitTripped ==
    /\ now = Tick
    /\ \E s \in ServiceType :
          cb = [t \in ServiceType |->
                  IF t = s THEN TrippedBreaker ELSE NewBreaker]
    /\ calls = [c \in CallIds |-> FreeCall]
    /\ last = NoResult
    /\ reqs = [r \in ReqIds |-> FreeRequest]
    /\ healthCache = NoSnapshot
    /\ ongoingHealthChecks = [s \in ServiceType |-> NoCheck]
    /\ refreshes = << >>
    /\ individual = [s \in ServiceType |-> FALSE]
    /\ sent = {}

SpecHealthTripped == InitTripped /\ [][NextHealth]_vars

(***************************************************************************)
(* Properties of the circuit breaker                                       *)
(***************************************************************************)
\* a step in which onFailure() ran on the breaker of s
FailureRecorded(s) == cb'[s].failureCount = cb[s].failureCount + 1
\* a step in which execute() was entered on the breaker of s
ExecuteCalled(s) == cb'[s].requestCount = cb[s].requestCount + 1
\* a step in which onSuccess() ran on the breaker of s
SuccessRecorded(s) == cb'[s].successCount = cb[s].successCount + 1
\* the breaker of s is open and its cooldown has not elapsed
CoolingDown(s) ==
    /\ cb[s].state = OPEN
    /\ now - cb[s].lastFailureTime < resetTimeout
\* the breaker of s is open and its cooldown has elapsed
CooledDown(s) ==
    /\ cb[s].state = OPEN
    /\ cb[s].lastFailureTime # Unset
    /\ now - cb[s].lastFailureTime >= resetTimeout

\* C2: a breaker enters OPEN exactly in a step that records a failure after
\* which failureCount >= 5 and failureCount / max(requestCount, 1) * 100 >=
\* errorThreshold, whatever the state before; a breaker whose every request
\* so far failed stays CLOSED on failures one to four and is OPEN after the
\* fifth.
C2_OpensExactlyAtThreshold ==
    [][\A s \in ServiceType :
        /\ (cb[s].state # OPEN /\ cb'[s].state = OPEN)
             <=> /\ cb[s].state # OPEN
                 /\ FailureRecorded(s)
                 /\ cb'[s].failureCount >= 5
                 /\ cb'[s].failureCount * 100
                       >= errorThreshold * Max(cb'[s].requestCount, 1)
        /\ (/\ FailureRecorded(s)
            /\ cb[s].state = CLOSED
            /\ cb'[s].successCount = 0
            /\ cb'[s].requestCount = cb'[s].failureCount)
             => /\ cb'[s].failureCount < 5 => cb'[s].state = CLOSED
                /\ cb'[s].failureCount = 5 => cb'[s].state = OPEN
      ]_vars

\* C2 witness: five requests, five failures, the breaker is open
C2_Witness ==
    /\ cb[Subject].state = OPEN
    /\ cb[Subject].failureCount = 5
    /\ cb[Subject].requestCount = 5
    /\ cb[Subject].successCount = 0
    /\ last.result \in {"OperationError", "Timeout"}

\* C3: while the breaker is OPEN and now - lastFailureTime < resetTimeout,
\* every execute() throws CircuitBreakerOpenError without invoking the
\* operation and without starting a race, and the breaker stays OPEN.
C3_OpenFailsFast ==
    [][\A s \in ServiceType :
        (CoolingDown(s) /\ ExecuteCalled(s))
          => /\ last'.result = "CircuitBreakerOpenError"
             /\ last'.svc = s
             /\ last'.invoked = 0
             /\ calls' = calls
             /\ cb'[s].state = OPEN
      ]_vars

\* C3 witness: two execute() calls were turned away by the open breaker
C3_Witness ==
    /\ CoolingDown(Subject)
    /\ last.result = "CircuitBreakerOpenError"
    /\ last.invoked = 0
    /\ cb[Subject].failureCount = 5
    /\ cb[Subject].successCount = 0
    /\ cb[Subject].requestCount = 7
    /\ \A c \in CallIds : calls[c].pc = "free"

\* C4: when the breaker is OPEN and now - lastFailureTime >= resetTimeout,
\* the next execute() sets the state to HALF_OPEN and starts one race in
\* which the operation has been invoked exactly once; nothing is thrown.
C4_CooldownElapsedProbes ==
    [][\A s \in ServiceType :
        (CooledDown(s) /\ ExecuteCalled(s))
          => /\ cb'[s].state = HALF_OPEN
             /\ last' = last
             /\ \E c \in CallIds :
                   /\ calls[c].pc = "free"
                   /\ calls'[c].pc = "racing"
                   /\ calls'[c].svc = s
                   /\ calls'[c].invoked = 1
                   /\ \A d \in CallIds \ {c} : calls'[d] = calls[d]
      ]_vars

\* C4 witness: the probing call of a half-open breaker is in flight, begun
\* when the cooldown had elapsed
C4_Witness ==
    /\ cb[Subject].state = HALF_OPEN
    /\ now - cb[Subject].lastFailureTime >= resetTimeout
    /\ \E c \in CallIds :
          /\ calls[c].pc = "racing"
          /\ calls[c].svc = Subject
          /\ calls[c].start = now
          /\ calls[c].invoked = 1

\* C5: every execute() that returns records a success, and every recorded
\* success sets failureCount to 0, adds one to successCount, sets
\* lastSuccessTime to now, and turns HALF_OPEN into CLOSED while leaving any
\* other state as it was.
C5_SuccessResets ==
    [][/\ \A c \in CallIds :
            (calls[c].pc = "racing" /\ calls'[c].pc = "free"
               /\ last'.result = "returned")
              => SuccessRecorded(calls[c].svc)
       /\ \A s \in ServiceType :
            SuccessRecorded(s)
              => /\ cb'[s].failureCount = 0
                 /\ cb'[s].lastSuccessTime = now
                 /\ cb'[s].requestCount = cb[s].requestCount
                 /\ cb'[s].lastFailureTime = cb[s].lastFailureTime
                 /\ cb'[s].state =
                       IF cb[s].state = HALF_OPEN THEN CLOSED ELSE cb[s].state
      ]_vars

\* C5 witness: five failures opened the breaker, and the one success of the
\* half-open probe closed it and zeroed failureCount
C5_Witness ==
    /\ cb[Subject].state = CLOSED
    /\ cb[Subject].successCount = 1
    /\ cb[Subject].requestCount = 6
    /\ cb[Subject].failureCount = 0
    /\ cb[Subject].lastSuccessTime = now
    /\ cb[Subject].lastFailureTime # Unset
    /\ last.result = "returned"
    /\ \A c \in CallIds : calls[c].pc = "free"

(***************************************************************************)
(* Properties of the circuit-breaker proxy                                 *)
(***************************************************************************)
\* a step in which slot r keeps the request it holds (no new request is
\* taken: the middleware calls execute() once per request, at its start)
SameRequest(r) ==
    /\ reqs[r].pc # "free"
    /\ \A s \in ServiceType : ~ExecuteCalled(s)

\* the status codes a response of the gateway may carry
ValidStatus == UpstreamStatus \cup {serviceUnavailable}

\* C1: every proxied request gets exactly one response: never more than one
\* status line is written, one has been written with a valid status code by
\* the time the middleware returns, the response first written is never
\* replaced, a sendOnce that returns true is the first write, and a sendOnce
\* that returns false writes nothing.
C1_ExactlyOneResponse ==
    [][\A r \in ReqIds :
        /\ reqs'[r].writes <= 1
        /\ reqs'[r].pc = "done"
             => /\ reqs'[r].writes = 1
                /\ reqs'[r].status \in ValidStatus
        /\ (SameRequest(r) /\ reqs[r].writes >= 1)
             => /\ reqs'[r].writes = reqs[r].writes
                /\ reqs'[r].status = reqs[r].status
                /\ reqs'[r].body = reqs[r].body
        /\ (SameRequest(r) /\ reqs[r].sendOnce = "none")
             => /\ reqs'[r].sendOnce = "sent"
                  => reqs[r].writes = 0 /\ reqs'[r].writes = 1
                /\ reqs'[r].sendOnce = "skipped"
                  => reqs[r].writes = 1 /\ reqs'[r].writes = 1
      ]_vars

\* C1 witness: the upstream response was being piped when the breaker's
\* timer fired; the generic 503 went through sendOnce, which returned false,
\* and the one response of the request is the upstream's
C1_Witness ==
    \E r \in ReqIds :
        /\ reqs[r].pc = "done"
        /\ reqs[r].sendOnce = "skipped"
        /\ reqs[r].writes = 1
        /\ reqs[r].body = "upstream"
        /\ reqs[r].status = 200
        /\ cb[reqs[r].svc].failureCount = 1

(***************************************************************************)
(* Properties of the health routes                                         *)
(***************************************************************************)
\* the responses of GET /health among rs
HealthResponses(rs) == {r \in rs : r.route = "health"}
\* those served from the snapshot
CachedResponses(rs) == {r \in HealthResponses(rs) : r.via \in {"fresh", "stale"}}

\* a step in which a GET /health handler runs from its start: it answers
\* from the snapshot, or it calls performConcurrentHealthCheck (a refresh
\* joins the list, or all three breakers are entered)
ReadStep ==
    \/ CachedResponses(sent') # {}
    \/ Len(refreshes') > Len(refreshes)
    \/ \A s \in ServiceType : ExecuteCalled(s)

\* a step in which checkServiceHealthWithCircuitBreaker(s) is called
CheckCalled(s) ==
    \/ Len(refreshes') > Len(refreshes)
    \/ ~individual[s] /\ individual'[s]

\* the age of the snapshot
Age == now - healthCache.timestamp

\* what refresh r holds once the check of s has given it x
Given(r, s, x) == [r EXCEPT !.results[s] = x]

\* C6: a GET /health that finds a snapshot with age < cacheTtl answers with
\* that snapshot in the same turn and leaves the breakers, the snapshot,
\* the registry of pending checks and the pending refreshes as they were.
C6_FreshReadServesCache ==
    [][(healthCache.present /\ Age < cacheTtl /\ ReadStep)
         => /\ HealthResponses(sent') = CachedResponses(sent')
            /\ \E r \in sent' :
                  /\ r.route = "health"
                  /\ r.data = healthCache.data
                  /\ sent' = {r}
            /\ cb' = cb
            /\ healthCache' = healthCache
            /\ ongoingHealthChecks' = ongoingHealthChecks
            /\ refreshes' = refreshes
            /\ individual' = individual
      ]_vars

\* C6 witness: a snapshot stored one tick ago (5000 ms < cacheTtl) was just
\* served, with nothing pending
C6_Witness ==
    /\ healthCache.present
    /\ Age = Tick
    /\ Age < cacheTtl
    /\ \E r \in sent :
          /\ r.route = "health"
          /\ r.via = "fresh"
          /\ r.data = healthCache.data
    /\ refreshes = << >>
    /\ \A s \in ServiceType : ~ongoingHealthChecks[s].pending

\* C7: a GET /health that finds a snapshot with cacheTtl <= age <
\* 2 * cacheTtl answers with that snapshot in the same turn, leaves the
\* snapshot as it is, and starts exactly one refresh, a background one:
\* each service is checked once (a new execute() or a join of the pending
\* check).  A background refresh answers nobody: a step that starts no read
\* and completes no refresh awaited by a reader writes no /health response.
C7_StaleReadServesCacheAndRefreshes ==
    [][/\ (healthCache.present /\ Age >= cacheTtl /\ Age < 2 * cacheTtl
             /\ ReadStep)
          => /\ \E r \in sent' :
                   /\ r.route = "health"
                   /\ r.data = healthCache.data
                   /\ r.statusCode =
                        (IF healthCache.data.status = "healthy" THEN 200 ELSE 503)
                   /\ sent' = {r}
             /\ healthCache' = healthCache
             /\ Len(refreshes') = Len(refreshes) + 1
             /\ SubSeq(refreshes', 1, Len(refreshes)) = refreshes
             /\ refreshes'[Len(refreshes')].kind = "background"
             /\ \A s \in ServiceType :
                   IF ongoingHealthChecks[s].pending
                   THEN cb'[s] = cb[s]
                   ELSE ExecuteCalled(s) /\ ongoingHealthChecks'[s].pending
       /\ (/\ ~ReadStep
           /\ \A i \in DOMAIN refreshes : refreshes[i].kind = "background")
          => HealthResponses(sent') = {}
      ]_vars

\* C7 witness: a snapshot 15000 ms old was just served as stale while its
\* one background refresh awaits its three checks
C7_Witness ==
    /\ healthCache.present
    /\ Age = 3 * Tick
    /\ \E r \in sent :
          /\ r.route = "health"
          /\ r.via = "stale"
          /\ r.data = healthCache.data
    /\ Len(refreshes) = 1
    /\ refreshes[1].kind = "background"
    /\ \A s \in ServiceType :
          /\ refreshes[1].results[s] = "pending"
          /\ ongoingHealthChecks[s].pending

\* C8: a GET /health that finds no snapshot, or one with age >=
\* 2 * cacheTtl, does not answer from the snapshot: it starts a refresh that
\* its handler awaits; and a refresh awaited by a reader, once complete,
\* stores its aggregate with timestamp = now and answers with it.
C8_ColdReadBlocksForRefresh ==
    [][/\ ((~healthCache.present \/ Age >= 2 * cacheTtl) /\ ReadStep)
          => /\ CachedResponses(sent') = {}
             /\ Len(refreshes') = Len(refreshes) + 1
             /\ refreshes'[Len(refreshes')].kind = "read"
       /\ \A r \in HealthResponses(sent') :
            r.via = "live"
              => /\ healthCache'.present
                 /\ healthCache'.timestamp = now
                 /\ \E i \in DOMAIN refreshes :
                       /\ refreshes[i].kind = "read"
                       /\ \A s \in ServiceType :
                             refreshes[i].results[s] \in
                                {"pending", r.data.services[s]}
      ]_vars

\* C9: a checkServiceHealthWithCircuitBreaker(s) call made while a check of
\* s is registered enters no breaker and starts no probe; and when the
\* registered check settles, one result x reaches every caller awaiting it:
\* the per-service endpoint answers x and each refresh awaiting s holds x
\* (it stays pending on other services, or completes with x in its
\* aggregate).
C9_PendingCheckIsShared ==
    [][\A s \in ServiceType :
        /\ (ongoingHealthChecks[s].pending /\ CheckCalled(s))
             => /\ cb'[s] = cb[s]
                /\ ongoingHealthChecks'[s] = ongoingHealthChecks[s]
        /\ (ongoingHealthChecks[s].pending /\ ~ongoingHealthChecks'[s].pending)
             => \E x \in HealthStatus :
                  /\ individual[s]
                       => \E r \in sent' : r.route = s /\ r.status = x
                  /\ \A i \in DOMAIN refreshes :
                       refreshes[i].results[s] = "pending"
                         => \/ \E j \in DOMAIN refreshes' :
                                 refreshes'[j] = Given(refreshes[i], s, x)
                            \/ /\ \A t \in ServiceType \ {s} :
                                     refreshes[i].results[t] # "pending"
                               /\ healthCache'.present
                               /\ healthCache'.timestamp = now
                               /\ healthCache'.data.services[s] = x
                               /\ refreshes[i].kind = "read"
                                    => \E r \in HealthResponses(sent') :
                                         r.data.services =
                                            Given(refreshes[i], s, x).results
      ]_vars

\* C9 witness: the per-service endpoint and an aggregate read awaited the
\* same check; both were answered in this turn with the same status, and
\* the breaker of that service was entered once
C9_Witness ==
    \E s \in ServiceType :
        /\ cb[s].requestCount = 1
        /\ ~ongoingHealthChecks[s].pending
        /\ \E r1 \in sent :
              /\ r1.route = s
              /\ \E r2 \in sent :
                    /\ r2.route = "health"
                    /\ r2.via = "live"
                    /\ r2.data.services[s] = r1.status

\* the number of services an aggregate reports as healthy
HealthyIn(data) == Cardinality({s \in ServiceType : data.services[s] = "healthy"})

\* an aggregate has one entry per service and the overall status of the rule
WellFormed(data) ==
    /\ DOMAIN data.services = ServiceType
    /\ \A s \in ServiceType : data.services[s] \in HealthStatus
    /\ data.status = "healthy" <=> HealthyIn(data) = 3
    /\ data.status = "degraded" <=> (HealthyIn(data) >= 1 /\ HealthyIn(data) < 3)
    /\ data.status = "unhealthy" <=> HealthyIn(data) = 0

\* C10: every aggregate a refresh produces (the snapshot stored, each
\* /health response) has one entry per service and is healthy iff all three
\* entries are healthy, degraded iff at least one is healthy and at least
\* one is not, unhealthy iff none is healthy; and a check of s that fails
\* (its breaker records a failure) puts "unhealthy" in the entry of s of the
\* aggregate stored in that turn and leaves the other entries what the
\* refresh already held.
C10_AggregateOfAllServices ==
    [][/\ healthCache'.present => WellFormed(healthCache'.data)
       /\ \A r \in HealthResponses(sent') : WellFormed(r.data)
       /\ \A s \in ServiceType :
            (FailureRecorded(s) /\ healthCache' # healthCache)
              => \E i \in DOMAIN refreshes :
                    /\ refreshes[i].results[s] = "pending"
                    /\ healthCache'.data.services =
                          [refreshes[i].results EXCEPT ![s] = "unhealthy"]
      ]_vars

\* C10 witness: one check timed out and the other two found their service
\* healthy: the read is answered 503 with the aggregate degraded
C10_Witness ==
    \E s \in ServiceType :
        /\ cb[s].failureCount = 1
        /\ \E r \in sent :
              /\ r.route = "health"
              /\ r.via = "live"
              /\ r.statusCode = 503
              /\ r.data.status = "degraded"
              /\ r.data.services[s] = "unhealthy"
              /\ \A t \in ServiceType \ {s} : r.data.services[t] = "healthy"
              /\ healthCache.data = r.data

\* C11: every GET /health response, whether served from the fresh snapshot,
\* from the stale snapshot or from a refresh the handler awaited, carries
\* status code 200 iff the overall status of the aggregate it returns is
\* healthy and 503 otherwise; every GET /health/<service> response carries
\* 200 iff the result of that service is healthy and 503 otherwise.
C11_StatusCodeFollowsStatus ==
    \A r \in sent :
        /\ r.route = "health"
             => /\ r.via \in {"fresh", "stale", "live"}
                /\ r.statusCode = 200 <=> r.data.status = "healthy"
                /\ r.statusCode = 503 <=> r.data.status # "healthy"
        /\ r.route \in ServiceType
             => /\ r.statusCode = 200 <=> r.status = "healthy"
                /\ r.statusCode = 503 <=> r.status # "healthy"

\* C11 witness: in one turn the per-service endpoint answered 200 for a
\* healthy service while the aggregate read, one of whose services is
\* degraded, was answered 503
C11_Witness ==
    \E s \in ServiceType :
        /\ \E r \in sent :
              r.route = s /\ r.status = "healthy" /\ r.statusCode = 200
        /\ \E r \in sent :
              /\ r.route = "health"
              /\ r.via = "live"
              /\ r.data.status = "degraded"
              /\ r.data.services[s] = "healthy"
              /\ \E t \in ServiceType : r.data.services[t] = "degraded"
              /\ r.statusCode = 503

\* C12: every GET /health response that returns a snapshot carries a
\* cache_info matching the path that served it: served_from_cache true and
\* freshness "fresh" on a fresh read, served_from_cache true and freshness
\* "stale" on a stale read, served_from_cache false and freshness "live"
\* after a refresh the handler awaited.
C12_CacheInfoMatchesPath ==
    \A r \in HealthResponses(sent) :
        /\ r.cache_info.present
        /\ r.via = "fresh"
             => r.cache_info.served_from_cache /\ r.cache_info.freshness = "fresh"
        /\ r.via = "stale"
             => r.cache_info.served_from_cache /\ r.cache_info.freshness = "stale"
        /\ r.via = "live"
             => ~r.cache_info.served_from_cache /\ r.cache_info.freshness = "live"

(***************************************************************************)
(* Properties of the proxy's failure paths                                 *)
(***************************************************************************)
\* the entry of the fallback table of s that the category of the inbound
\* path url names, the health entry when s has no entry of that name
EntryForInbound(s, url) ==
    LET key == determineFallbackKey(url)
    IN  IF key \in DOMAIN fallbackResponses(s)
        THEN fallbackResponses(s)[key]
        ELSE fallbackResponses(s).health

\* C13: a request that arrives while the breaker of its service is OPEN
\* with the cooldown not elapsed is answered without contacting the
\* upstream, with a body decorated with circuit_breaker.state = "open";
\* the body is the fallback entry named by the category of the inbound
\* path (/persons, /recognize or /process, /cameras, else health), sent
\* with the entry's declared status code or 503 when it declares none; for
\* /api/persons/123 that is the persons entry with status 503.
C13_OpenFallbackByPath ==
    [][\A r \in ReqIds, s \in ServiceType :
         \A url \in Inbound(s) :
           (CoolingDown(s) /\ ProxyRequest(r, s, url))
             => /\ reqs'[r].upstream = "none"
                /\ reqs'[r].promise = "none"
                /\ reqs'[r].writes = 1
                /\ reqs'[r].circuit_breaker = "open"
                /\ reqs'[r].payload = EntryForInbound(s, url).entry
                /\ reqs'[r].status =
                      (IF EntryForInbound(s, url).statusCode # 0
                       THEN EntryForInbound(s, url).statusCode
                       ELSE 503)
                /\ url = <<"api", "persons", "123">>
                     => /\ reqs'[r].payload = "persons"
                        /\ reqs'[r].status = 503
      ]_vars

(***************************************************************************)
(* Properties of the health checks                                         *)
(***************************************************************************)
\* C14: a health check of s made while the breaker of s is OPEN with the
\* cooldown not elapsed enters the breaker (requestCount + 1, nothing else
\* changes) and issues no probe; it does not reject: its caller receives a
\* result of status unhealthy with a non-empty error message, which the
\* per-service endpoint sends with status 503 and which the aggregate
\* holds as the entry of s.
C14_OpenCheckGivesUnhealthy ==
    [][\A s \in ServiceType :
        (CoolingDown(s) /\ ExecuteCalled(s))
          => /\ cb'[s] = [cb[s] EXCEPT !.requestCount = @ + 1]
             /\ ongoingHealthChecks'[s] = NoCheck
             /\ checkServiceHealthWithCircuitBreaker(s).result = "unhealthy"
             /\ checkServiceHealthWithCircuitBreaker(s).error # ""
             /\ \/ /\ refreshes' = refreshes
                   /\ healthCache' = healthCache
                   /\ \E r \in sent' :
                         /\ r.route = s
                         /\ r.status = "unhealthy"
                         /\ r.error # ""
                         /\ r.statusCode = 503
                         /\ sent' = {r}
                \/ /\ Len(refreshes') = Len(refreshes) + 1
                   /\ refreshes'[Len(refreshes')].results[s] = "unhealthy"
                \/ /\ healthCache'.present
                   /\ healthCache'.timestamp = now
                   /\ healthCache'.data.services[s] = "unhealthy"
      ]_vars

\* C14 witness: the breaker of s, tripped by five failed requests, is still
\* cooling down; the per-service endpoint was just answered 503 unhealthy
\* with the message of the CircuitBreakerOpenError, the call counted as the
\* sixth request and no check registered
C14_Witness ==
    \E s \in ServiceType :
        /\ CoolingDown(s)
        /\ cb[s].requestCount = minFailures + 1
        /\ cb[s].failureCount = minFailures
        /\ ~ongoingHealthChecks[s].pending
        /\ \E r \in sent :
              /\ r.route = s
              /\ r.status = "unhealthy"
              /\ r.error = openErrorMessage
              /\ r.statusCode = 503

\* every caller that awaited the registered check of s holds x after the
\* step: the per-service endpoint answered x, and each refresh that was
\* pending on s holds x, in the list or in the aggregate it stored
Delivered(s, x) ==
    /\ individual[s] => \E r \in sent' : r.route = s /\ r.status = x
    /\ \A i \in DOMAIN refreshes :
          refreshes[i].results[s] = "pending"
            => \/ \E j \in DOMAIN refreshes' :
                    refreshes'[j] = Given(refreshes[i], s, x)
               \/ /\ Complete(Given(refreshes[i], s, x))
                  /\ healthCache'.present
                  /\ healthCache'.data.services[s] = x

\* the classification of a probe's outcome: a 2xx response is healthy, a
\* response of any other status is degraded, no response is unhealthy
StatusFor(outcome) ==
    IF outcome.kind = "response"
    THEN IF outcome.status >= 200 /\ outcome.status <= 299
         THEN "healthy"
         ELSE "degraded"
    ELSE "unhealthy"

\* C15: a health probe that ends with a response of status 2xx gives its
\* callers healthy, one that ends with a response of any other status
\* gives degraded, and one that ends without a response (connection
\* refused, timeout, DNS failure) gives unhealthy.
C15_ProbeClassification ==
    [][\A s \in ServiceType, outcome \in ProbeOutcomes :
         ProbeReturns(s, outcome) => Delivered(s, StatusFor(outcome))
      ]_vars

\* C16: a transport-level failure of an upstream call that runs through the
\* breaker of s is recorded by that breaker as a failure (failureCount + 1,
\* lastFailureTime = now): for a proxied request, the upstream exchange
\* failing before any response while the race is on; for a health check,
\* the probe ending without a response.
C16_TransportFailureRecorded ==
    [][/\ \A r \in ReqIds :
            (/\ reqs[r].race = "racing"
             /\ reqs[r].upstream = "pending"
             /\ UpstreamFails(r))
              => /\ FailureRecorded(reqs[r].svc)
                 /\ cb'[reqs[r].svc].lastFailureTime = now
       /\ \A s \in ServiceType, outcome \in ProbeOutcomes :
            (outcome.kind = "transport" /\ ProbeReturns(s, outcome))
              => /\ FailureRecorded(s)
                 /\ cb'[s].lastFailureTime = now
      ]_vars

(***************************************************************************)
(* Properties of execute()                                                 *)
(***************************************************************************)
\* the race of call c is settled in this step
RaceSettles(c) == calls[c].pc = "racing" /\ calls'[c].pc # "racing"

\* C17: the race of an admitted execute() ends in one of three ways.  The
\* operation fulfils first: execute returns and one success is recorded.
\* The operation rejects first, or the timer fires first (only once
\* timeout ms have passed since the race began): execute throws that
\* error and exactly one failure is recorded, the same way in both cases:
\* failureCount + 1, lastFailureTime = now, OPEN if failureCount >= 5 and
\* the failure rate reaches errorThreshold, the other fields unchanged.
C17_RaceOutcomeAccounting ==
    [][\A c \in CallIds :
        RaceSettles(c)
          => LET s == calls[c].svc
                 b == cb[s]
             IN  /\ last'.svc = s
                 /\ last'.invoked = 1
                 /\ last'.result \in {"returned", "OperationError", "Timeout"}
                 /\ last'.result = "returned"
                      => /\ calls'[c].pc = "free"
                         /\ SuccessRecorded(s)
                         /\ cb'[s].failureCount = 0
                 /\ last'.result = "Timeout"
                      <=> calls'[c].pc = "abandoned"
                 /\ last'.result = "Timeout"
                      => now - calls[c].start >= timeout
                 /\ last'.result \in {"OperationError", "Timeout"}
                      => /\ cb'[s].failureCount = b.failureCount + 1
                         /\ cb'[s].lastFailureTime = now
                         /\ cb'[s].successCount = b.successCount
                         /\ cb'[s].requestCount = b.requestCount
                         /\ cb'[s].lastSuccessTime = b.lastSuccessTime
                         /\ cb'[s].state =
                              (IF /\ b.failureCount + 1 >= 5
                                  /\ (b.failureCount + 1) * 100 >=
                                       errorThreshold * Max(b.requestCount, 1)
                               THEN OPEN
                               ELSE b.state)
      ]_vars

\* C17 witness: the timer of the second call fired 5000 ms after the first
\* call was rejected: two failures, the later one stamped now, and the
\* operation that timed out still running
C17_Witness ==
    /\ last.result = "Timeout"
    /\ cb[Subject].failureCount = 2
    /\ cb[Subject].requestCount = 2
    /\ cb[Subject].successCount = 0
    /\ cb[Subject].lastFailureTime = now
    /\ now = 2 * Tick
    /\ \E c \in CallIds : calls[c].pc = "abandoned"

\* C18: every execute() adds exactly one to requestCount, at its entry:
\* the step that starts a race and the step that throws
\* CircuitBreakerOpenError both add one, the settlement of a race adds
\* nothing, and requestCount changes in no other way than by one or by
\* reset().  An execute() that starts no race (the fast-fail of an OPEN
\* breaker) changes requestCount alone: state, failureCount, successCount,
\* lastFailureTime and lastSuccessTime stay as they were.
C18_RequestCountedOnce ==
    [][\A s \in ServiceType :
        /\ cb'[s].requestCount # cb[s].requestCount
             => ExecuteCalled(s) \/ cb'[s] = NewBreaker
        /\ \A c \in CallIds :
             /\ (calls[c].pc = "free" /\ calls'[c].pc = "racing"
                    /\ calls'[c].svc = s)
                  => ExecuteCalled(s)
             /\ (calls[c].pc # "free" /\ calls'[c] # calls[c]
                    /\ calls[c].svc = s)
                  => cb'[s].requestCount = cb[s].requestCount
        /\ (last' # last /\ last'.result = "CircuitBreakerOpenError"
               /\ last'.svc = s)
             => ExecuteCalled(s)
        /\ (ExecuteCalled(s) /\ calls' = calls)
             => /\ cb[s].state = OPEN
                /\ last'.result = "CircuitBreakerOpenError"
                /\ cb'[s] = [cb[s] EXCEPT !.requestCount = @ + 1]
      ]_vars

\* C18 witness: the breaker opened on its fifth failure and the sixth
\* execute() was refused: requestCount is 6 while failureCount is still 5
\* and no success was ever recorded
C18_Witness ==
    /\ cb[Subject].state = OPEN
    /\ cb[Subject].requestCount = 6
    /\ cb[Subject].failureCount = 5
    /\ cb[Subject].successCount = 0
    /\ cb[Subject].lastSuccessTime = Unset
    /\ last.result = "CircuitBreakerOpenError"
    /\ \E c \in CallIds : calls[c].pc = "abandoned"

\* execute() throws to the middleware of request r in this step: the race
\* is settled by baseProxy's error, by the per-call deadline or by the
\* breaker's timer
Threw(r) ==
    /\ reqs[r].race = "racing"
    /\ reqs'[r].race = "settled"
    /\ \/ ProxyRejects(r)
       \/ OperationTimeoutFires(r)
       \/ ProxyTimerFires(r)

\* one failure is recorded by the breaker of s and nothing else is counted
RecordedOnce(s) ==
    /\ cb'[s].failureCount = cb[s].failureCount + 1
    /\ cb'[s].lastFailureTime = now
    /\ cb'[s].successCount = cb[s].successCount
    /\ cb'[s].requestCount = cb[s].requestCount

\* C19, as stated: when the guarded forward call fails with an error other
\* than CircuitBreakerOpenError (baseProxy's error, the per-call deadline
\* or the breaker's timer, whichever fires first), the client receives
\* status 503 with the generic "Service Temporarily Unavailable" body and
\* the failure is recorded once by the breaker of the service.
C19_FailureAnswers503 ==
    [][\A r \in ReqIds :
        Threw(r)
          => /\ reqs'[r].status = 503
             /\ reqs'[r].body = "unavailable"
             /\ reqs'[r].writes = 1
             /\ RecordedOnce(reqs[r].svc)
      ]_vars

\* C19, amended: when the guarded forward call fails with an error other
\* than CircuitBreakerOpenError, the failure is recorded once by the
\* breaker of the service and the generic 503 body is handed to the
\* response guard: if no response had been started the client receives
\* status 503 with that body; if the upstream response was already being
\* relayed, nothing more is written and the client keeps that response.
C19_FailureAnswers503UnlessStarted ==
    [][\A r \in ReqIds :
        Threw(r)
          => /\ RecordedOnce(reqs[r].svc)
             /\ reqs'[r].pc = "done"
             /\ IF reqs[r].writes = 0
                THEN /\ reqs'[r].status = 503
                     /\ reqs'[r].body = "unavailable"
                     /\ reqs'[r].writes = 1
                     /\ reqs'[r].sendOnce = "sent"
                ELSE /\ reqs'[r].status = reqs[r].status
                     /\ reqs'[r].body = reqs[r].body
                     /\ reqs'[r].writes = reqs[r].writes
                     /\ reqs[r].body = "upstream"
                     /\ reqs'[r].sendOnce = "skipped"
      ]_vars

\* C19 witness: the Face Recognition Service had not answered when the
\* breaker's timer fired at 5000 ms, well before the per-call deadline of
\* 30000 ms: the client got the generic 503 while the upstream exchange is
\* still open, and the breaker counts one failure
C19_Witness ==
    \E r \in ReqIds :
        /\ reqs[r].svc = FACE_RECOGNITION
        /\ reqs[r].pc = "done"
        /\ reqs[r].race = "settled"
        /\ reqs[r].upstream = "pending"
        /\ reqs[r].status = 503
        /\ reqs[r].body = "unavailable"
        /\ reqs[r].sendOnce = "sent"
        /\ cb[FACE_RECOGNITION].failureCount = 1
        /\ cb[FACE_RECOGNITION].lastFailureTime = now

(***************************************************************************)
(* Properties of getStats()                                                *)
(***************************************************************************)
\* the snapshot x shows the fields of breaker b
Shows(x, b) ==
    /\ x.state = b.state
    /\ x.failureCount = b.failureCount
    /\ x.successCount = b.successCount
    /\ x.requestCount = b.requestCount
    /\ x.lastFailureTime = b.lastFailureTime
    /\ x.lastSuccessTime = b.lastSuccessTime

Times == {k * Tick : k \in 1..MaxTicks}

\* a background refresh (started by a stale read) awaits its checks
BackgroundPending ==
    \E i \in DOMAIN refreshes : refreshes[i].kind = "background"

\* a background refresh completes in this step
BackgroundCompletes ==
    \E i \in DOMAIN refreshes :
        /\ refreshes[i].kind = "background"
        /\ \A j \in DOMAIN refreshes' : refreshes'[j] # refreshes[i]
        /\ Len(refreshes') < Len(refreshes)

\* C21: when a stale read has started a background refresh and every
\* registered check settles, the snapshot is eventually rewritten with a
\* timestamp not earlier than any moment at which that refresh was still
\* pending, without any further read: the completion of the refresh is the
\* step that writes it, stamped with the time of that step.  A read made
\* less than cacheTtl after that write finds the snapshot fresh.
C21_BackgroundRefreshConverges ==
    /\ \A n \in Times :
          (BackgroundPending /\ now = n)
            ~> (/\ healthCache.present
                /\ healthCache.timestamp >= n
                /\ (now - healthCache.timestamp < cacheTtl => servesFresh))
    /\ [][BackgroundCompletes
            => /\ healthCache'.present
               /\ healthCache'.timestamp = now
               /\ \E i \in DOMAIN refreshes :
                     \A s \in ServiceType :
                        refreshes[i].results[s] \in
                           {"pending", healthCache'.data.services[s]}
         ]_vars

\* C21 witness: the last check of a background refresh settled in this
\* turn, 15000 ms or more after the first snapshot: the snapshot carries
\* the timestamp of this turn, nobody was answered, and a read made now
\* would be served fresh
C21_Witness ==
    /\ healthCache.present
    /\ healthCache.timestamp = now
    /\ now >= 4 * Tick
    /\ refreshes = << >>
    /\ \A s \in ServiceType : ~ongoingHealthChecks[s].pending
    /\ sent = {}
    /\ \E s \in ServiceType : cb[s].lastSuccessTime = now
    /\ servesFresh

(***************************************************************************)
(* Properties of concurrent execute() calls                                *)
(***************************************************************************)
\* the breaker fields of s other than the listed ones are unchanged
OnlyCountersChange(s) ==
    /\ cb'[s].requestCount = cb[s].requestCount
    /\ \A t \in ServiceType \ {s} : cb'[t] = cb[t]

\* C22: whatever other execute() calls are in flight, each counter update
\* is one whole step at the entry or at the settlement of a call: an entry
\* adds one to requestCount and touches no other counter; a settled
\* success adds one to successCount and zeroes failureCount; a settled
\* failure adds one to failureCount and decides OPEN from the counters as
\* they are at that moment, the requests of the calls still in flight
\* included; a late completion and the clock change nothing; and the
\* breaker changes in no other step than these and reset().  Hence
\* requestCount counts the calls made, successCount the successes settled
\* and failureCount the failures settled since the last settled success,
\* all since the last reset().
C22_CountersLinearizable ==
    [][/\ \A c \in CallIds :
            /\ execute(c)
                 => /\ cb'[Subject].requestCount = cb[Subject].requestCount + 1
                    /\ cb'[Subject].successCount = cb[Subject].successCount
                    /\ cb'[Subject].failureCount = cb[Subject].failureCount
            /\ OperationFulfils(c)
                 => /\ cb'[calls[c].svc].successCount =
                          cb[calls[c].svc].successCount + 1
                    /\ cb'[calls[c].svc].failureCount = 0
                    /\ OnlyCountersChange(calls[c].svc)
            /\ (OperationRejects(c) \/ TimerFires(c))
                 => /\ cb'[calls[c].svc].failureCount =
                          cb[calls[c].svc].failureCount + 1
                    /\ cb'[calls[c].svc].successCount =
                          cb[calls[c].svc].successCount
                    /\ OnlyCountersChange(calls[c].svc)
                    /\ cb'[calls[c].svc].state = OPEN
                         <=> \/ cb[calls[c].svc].state = OPEN
                             \/ /\ cb'[calls[c].svc].failureCount >= 5
                                /\ cb'[calls[c].svc].failureCount * 100 >=
                                     errorThreshold *
                                       Max(cb'[calls[c].svc].requestCount, 1)
            /\ LateCompletion(c) => cb' = cb
       /\ AdvanceClock => cb' = cb
       /\ cb' # cb
            => \/ \E c \in CallIds :
                    \/ execute(c)
                    \/ OperationFulfils(c)
                    \/ OperationRejects(c)
                    \/ TimerFires(c)
               \/ reset
      ]_vars

\* C22 witness: four calls were made; one succeeded, then one failed, and
\* two are still racing, begun at different times: requestCount is 4,
\* successCount 1, failureCount 1
C22_Witness ==
    /\ cb[Subject].requestCount = 4
    /\ cb[Subject].successCount = 1
    /\ cb[Subject].failureCount = 1
    /\ cb[Subject].lastFailureTime > cb[Subject].lastSuccessTime
    /\ \A c \in CallIds : calls[c].pc = "racing"
    /\ \E c, d \in CallIds : calls[c].start < calls[d].start

\* C23: a breaker that is OPEN stops being OPEN only in a step that calls
\* execute() with now - lastFailureTime >= resetTimeout, which makes it
\* HALF_OPEN and starts a race, or in a reset(); the settlement of a call
\* admitted earlier, a late completion and the clock leave an OPEN breaker
\* OPEN, and without reset() an OPEN breaker becomes CLOSED only after
\* having been HALF_OPEN.
C23_OpenLeftOnlyByProbe ==
    [][\A s \in ServiceType :
        /\ (cb[s].state = OPEN /\ cb'[s].state # OPEN)
             => \/ /\ cb'[s].state = HALF_OPEN
                   /\ ExecuteCalled(s)
                   /\ cb[s].lastFailureTime # Unset
                   /\ now - cb[s].lastFailureTime >= resetTimeout
                   /\ \E c \in CallIds :
                         calls[c].pc = "free" /\ calls'[c].pc = "racing"
                \/ /\ reset
                   /\ cb'[s] = NewBreaker
        /\ (cb[s].state = OPEN /\ cb'[s].state = CLOSED) => reset
        /\ (cb[s].state = OPEN
               /\ \E c \in CallIds :
                     \/ OperationFulfils(c)
                     \/ OperationRejects(c)
                     \/ TimerFires(c)
                     \/ LateCompletion(c))
             => cb'[s].state = OPEN
        /\ (cb[s].state = OPEN /\ AdvanceClock) => cb'[s].state = OPEN
      ]_vars

\* C23 witness: a call admitted while the breaker was closed fulfilled
\* after five other calls had opened it: the success is recorded
\* (failureCount back to 0) and the breaker is still OPEN
C23_Witness ==
    /\ cb[Subject].state = OPEN
    /\ last.result = "returned"
    /\ cb[Subject].successCount = 1
    /\ cb[Subject].failureCount = 0
    /\ cb[Subject].requestCount = 6
    /\ cb[Subject].lastSuccessTime = now
    /\ cb[Subject].lastFailureTime # Unset

\* the threshold of onFailure() on the counters of breaker s after the
\* failure of this step was counted
ThresholdAfter(s) ==
    /\ cb'[s].failureCount >= minFailures
    /\ cb'[s].failureCount * 100 >= errorThreshold * Max(cb'[s].requestCount, 1)

\* C24: a failure recorded on a HALF_OPEN breaker adds one to the
\* failureCount carried over from before and makes the breaker OPEN
\* exactly when failureCount >= 5 and the failure rate >= errorThreshold
\* hold on the counters after that failure, and otherwise leaves it
\* HALF_OPEN; every execute() on a HALF_OPEN breaker is admitted, invokes
\* its operation and leaves the breaker HALF_OPEN.
C24_HalfOpenFailureUsesThreshold ==
    [][\A s \in ServiceType :
        /\ (cb[s].state = HALF_OPEN
               /\ \E c \in CallIds :
                     /\ calls[c].svc = s
                     /\ OperationRejects(c) \/ TimerFires(c))
             => /\ cb'[s].failureCount = cb[s].failureCount + 1
                /\ cb'[s].requestCount = cb[s].requestCount
                /\ cb'[s].state = IF ThresholdAfter(s) THEN OPEN ELSE HALF_OPEN
        /\ (cb[s].state = HALF_OPEN /\ s = Subject /\ \E c \in CallIds : execute(c))
             => /\ cb'[s].state = HALF_OPEN
                /\ ExecuteCalled(s)
                /\ \E c \in CallIds :
                      /\ calls[c].pc = "free"
                      /\ calls'[c].pc = "racing"
                      /\ calls'[c].invoked = 1
                /\ last' = last
      ]_vars

\* C24 witness: the probe of a HALF_OPEN breaker failed while failureCount
\* was below 5 (an earlier success had zeroed it), and the breaker stayed
\* HALF_OPEN
C24_Witness ==
    /\ cb[Subject].state = HALF_OPEN
    /\ last.result \in {"OperationError", "Timeout"}
    /\ cb[Subject].failureCount = 1
    /\ cb[Subject].lastFailureTime = now
    /\ cb[Subject].requestCount = 7

\* C24 witness of the other branch: the probe of a HALF_OPEN breaker failed
\* with failureCount 5 carried over, and the breaker is OPEN again
C24_WitnessReopened ==
    /\ cb[Subject].state = OPEN
    /\ last.result \in {"OperationError", "Timeout"}
    /\ cb[Subject].failureCount = 6
    /\ cb[Subject].requestCount = 6
    /\ now >= resetTimeout

\* a caller awaits the check of s: the per-service endpoint or a refresh
Awaited(s) ==
    \/ individual[s]
    \/ \E i \in DOMAIN refreshes : refreshes[i].results[s] = "pending"

\* the registered check of s settles in this step
CheckSettled(s) ==
    \/ \E outcome \in ProbeOutcomes : ProbeReturns(s, outcome)
    \/ CheckTimerFires(s)

\* C25: the step in which the registered check of a service settles,
\* whatever the probe gave and also when the breaker's timer settles it,
\* removes that service's entry from the registry and no other entry; an
\* entry is removed in no other step; a check refused by the open breaker
\* leaves no entry behind; an entry exists exactly while some caller awaits
\* the check; and a checkHealth that finds no entry calls execute() anew
\* and, if admitted, registers a check started at that moment.
C25_RegistryEntryRemovedOnSettle ==
    /\ [][\A s \in ServiceType :
            /\ CheckSettled(s)
                 => /\ ongoingHealthChecks[s].pending
                    /\ ongoingHealthChecks'[s] = NoCheck
                    /\ \A t \in ServiceType \ {s} :
                          ongoingHealthChecks'[t] = ongoingHealthChecks[t]
            /\ (ongoingHealthChecks[s].pending /\ ~ongoingHealthChecks'[s].pending)
                 => CheckSettled(s)
            /\ (ongoingHealthChecks[s].pending /\ ongoingHealthChecks'[s].pending)
                 => ongoingHealthChecks'[s] = ongoingHealthChecks[s]
            /\ (~ongoingHealthChecks[s].pending /\ CheckCalled(s))
                 => /\ ExecuteCalled(s)
                    /\ IF cb[s].state = OPEN /\ ~shouldAttemptReset(cb[s])
                       THEN ongoingHealthChecks'[s] = NoCheck
                       ELSE ongoingHealthChecks'[s] =
                               [pending |-> TRUE, start |-> now]
       ]_vars
    /\ [](\A s \in ServiceType : ongoingHealthChecks[s].pending <=> Awaited(s))

\* C25 witness: the check of a service was settled by the breaker's timer
\* (one failure recorded), its entry was removed, and the next checkHealth
\* entered execute() again and registered a new check
C25_Witness ==
    \E s \in ServiceType :
        /\ cb[s].state = CLOSED
        /\ cb[s].failureCount = 1
        /\ cb[s].requestCount = 2
        /\ ongoingHealthChecks[s] = [pending |-> TRUE, start |-> now]
        /\ Awaited(s)
        /\ \E t \in ServiceType : cb[t].state = OPEN /\ ~ongoing(t)

\* the calls whose race settles in this step
SettlingCalls == {c \in CallIds : calls[c].pc = "racing" /\ calls'[c].pc # "racing"}

\* onSuccess() alone ran on the breaker of s in this step
OnlySuccess(s) ==
    /\ cb'[s].successCount = cb[s].successCount + 1
    /\ cb'[s].failureCount = 0
    /\ cb'[s].lastSuccessTime = now
    /\ cb'[s].lastFailureTime = cb[s].lastFailureTime
    /\ cb'[s].requestCount = cb[s].requestCount

\* onFailure() alone ran on the breaker of s in this step
OnlyFailure(s) ==
    /\ cb'[s].failureCount = cb[s].failureCount + 1
    /\ cb'[s].successCount = cb[s].successCount
    /\ cb'[s].lastFailureTime = now
    /\ cb'[s].lastSuccessTime = cb[s].lastSuccessTime
    /\ cb'[s].requestCount = cb[s].requestCount

\* C26: an admitted call passes through exactly one recording step.  Its
\* admission records nothing; the step in which its race settles applies
\* onSuccess() alone (the operation fulfilled first) or onFailure() alone
\* (the operation rejected first, or the timer fired first) and settles no
\* other call; a success or failure is recorded in no other step; and the
\* completion of an operation whose timeout was already recorded changes
\* no field of any breaker.
C26_ExactlyOneOutcomePerCall ==
    [][/\ \A c \in CallIds :
            /\ (calls[c].pc = "free" /\ calls'[c].pc # "free")
                 => /\ calls'[c].pc = "racing"
                    /\ cb'[Subject].successCount = cb[Subject].successCount
                    /\ cb'[Subject].failureCount = cb[Subject].failureCount
                    /\ cb'[Subject].lastSuccessTime = cb[Subject].lastSuccessTime
                    /\ cb'[Subject].lastFailureTime = cb[Subject].lastFailureTime
            /\ (calls[c].pc = "racing" /\ calls'[c].pc = "free")
                 => /\ OnlySuccess(calls[c].svc) \/ OnlyFailure(calls[c].svc)
                    /\ OnlySuccess(calls[c].svc) <=> last'.result = "returned"
                    /\ OnlyFailure(calls[c].svc) <=> last'.result = "OperationError"
            /\ (calls[c].pc = "racing" /\ calls'[c].pc = "abandoned")
                 => /\ OnlyFailure(calls[c].svc)
                    /\ last'.result = "Timeout"
            /\ (calls[c].pc = "abandoned" /\ calls'[c] # calls[c])
                 => /\ calls'[c].pc = "free"
                    /\ cb' = cb
                    /\ last' = last
       /\ Cardinality(SettlingCalls) <= 1
       /\ \A s \in ServiceType :
            (\/ cb'[s].successCount > cb[s].successCount
             \/ cb'[s].failureCount > cb[s].failureCount)
               => \E c \in SettlingCalls : calls[c].svc = s
      ]_vars

\* C26 witness: a call timed out (one failure recorded, no success), its
\* operation completed afterwards, and the counters are those the timeout
\* left
C26_Witness ==
    /\ cb[Subject].requestCount = 1
    /\ cb[Subject].failureCount = 1
    /\ cb[Subject].successCount = 0
    /\ cb[Subject].lastFailureTime # Unset
    /\ now > cb[Subject].lastFailureTime
    /\ last.result = "Timeout"
    /\ \A c \in CallIds : calls[c].pc = "free"

\* C27: in every reachable state, also while several execute() calls are
\* in flight, a breaker that is OPEN has failureCount >= 5 and a
\* lastFailureTime that is set.
C27_OpenImpliesThreshold ==
    \A s \in ServiceType :
        cb[s].state = OPEN
          => /\ cb[s].failureCount >= minFailures
             /\ cb[s].lastFailureTime # Unset

\* the part of C27 that the breaker keeps: an OPEN breaker has a
\* lastFailureTime, so that shouldAttemptReset() measures a cooldown
OpenHasFailureTime ==
    \A s \in ServiceType :
        cb[s].state = OPEN => cb[s].lastFailureTime # Unset

\* the number of callers awaiting the check of s
Waiters(s) ==
    Cardinality({i \in DOMAIN refreshes : refreshes[i].results[s] = "pending"})
      + (IF individual[s] THEN 1 ELSE 0)
\* the same in the next state
WaitersAfter(s) ==
    Cardinality({i \in DOMAIN refreshes' : refreshes'[i].results[s] = "pending"})
      + (IF individual'[s] THEN 1 ELSE 0)

\* C28: the callers that coalesce onto one pending check of a service
\* cost its breaker one execute() and one recorded outcome.  execute() is
\* entered only by a caller that finds nobody awaiting the check
\* (requestCount + 1, one waiter afterwards); each caller that joins adds a
\* waiter and leaves the breaker as it was; and the settlement releases
\* all waiters at once while recording one success or one failure and
\* leaving requestCount as it was.
C28_JoinersBypassBreaker ==
    [][\A s \in ServiceType :
        /\ ExecuteCalled(s)
             => /\ Waiters(s) = 0
                /\ WaitersAfter(s) <= 1
                /\ cb'[s].successCount = cb[s].successCount
                /\ cb'[s].failureCount = cb[s].failureCount
        /\ (Waiters(s) >= 1 /\ WaitersAfter(s) > Waiters(s))
             => /\ WaitersAfter(s) = Waiters(s) + 1
                /\ cb'[s] = cb[s]
                /\ ongoingHealthChecks'[s] = ongoingHealthChecks[s]
        /\ (Waiters(s) >= 1 /\ WaitersAfter(s) < Waiters(s))
             => /\ WaitersAfter(s) = 0
                /\ OnlySuccess(s) \/ OnlyFailure(s)
                /\ ~(OnlySuccess(s) /\ OnlyFailure(s))
        /\ cb'[s].requestCount \in {cb[s].requestCount, cb[s].requestCount + 1}
        /\ (Waiters(s) = WaitersAfter(s) /\ ~ExecuteCalled(s)) => cb'[s] = cb[s]
      ]_vars

\* after the settlement: the per-service endpoint and an aggregate read
\* were answered in one turn, and each breaker counted one request and one
\* success
C28_WitnessSettled ==
    \E s \in ServiceType :
        /\ cb[s].requestCount = 1
        /\ cb[s].successCount = 1
        /\ cb[s].failureCount = 0
        /\ Waiters(s) = 0
        /\ \E r \in sent : r.route = s
        /\ Cardinality({r \in sent : r.route = "health"}) >= 1
        /\ healthCache.present /\ healthCache.timestamp = now
        /\ refreshes = << >>
        /\ \A t \in ServiceType : cb[t].requestCount = 1

\* C28 witness: three callers (two aggregate reads and the per-service
\* endpoint) await one check of a service, and its breaker has counted one
\* request and no outcome yet
C28_Witness ==
    \E s \in ServiceType :
        /\ Waiters(s) = 3
        /\ cb[s].requestCount = 1
        /\ cb[s].successCount + cb[s].failureCount = 0

\* a refresh that was awaiting its checks completes in this step
RefreshCompletes == Len(refreshes') < Len(refreshes)

\* a refresh starts in this step and every one of its checks is refused by
\* an open breaker, so that it completes within the turn that started it
RefreshRefusedAtOnce ==
    /\ ~servesFresh
    /\ \A s \in ServiceType :
          /\ ~ongoing(s)
          /\ cb[s].state = OPEN
          /\ ~shouldAttemptReset(cb[s])
          /\ ExecuteCalled(s)

\* C29: the snapshot changes only in a step that completes a full refresh
\* (the one a cold read awaits or a background one), and such a write
\* stamps it with the current time; a read served fresh, a read served
\* stale, a read that starts a refresh it must await, a per-service read
\* and a settlement that completes no refresh leave the snapshot and its
\* timestamp as they were; the timestamp never decreases and a snapshot,
\* once present, stays present.
C29_SnapshotWrittenOnlyByRefresh ==
    [][/\ healthCache' # healthCache
            => /\ RefreshCompletes \/ RefreshRefusedAtOnce
               /\ healthCache'.present
               /\ healthCache'.timestamp = now
               /\ WellFormed(healthCache'.data)
       /\ (RefreshCompletes \/ RefreshRefusedAtOnce)
            => /\ healthCache'.present
               /\ healthCache'.timestamp = now
       /\ (CachedResponses(sent') # {} /\ ~RefreshRefusedAtOnce)
            => healthCache' = healthCache
       /\ (Len(refreshes') > Len(refreshes)) => healthCache' = healthCache
       /\ (\E s \in ServiceType : IndividualRead(s)) => healthCache' = healthCache
       /\ AdvanceClock => healthCache' = healthCache
       /\ healthCache'.timestamp >= healthCache.timestamp
       /\ healthCache.present => healthCache'.present
      ]_vars

\* C29 witness: a snapshot written at 5000 ms was served stale at
\* 15000 ms or later; the background refresh that read started is still
\* awaiting its checks, a per-service read has joined one of them, and the
\* snapshot and its timestamp are those of the first write
C29_Witness ==
    /\ healthCache.present
    /\ healthCache.timestamp = Tick
    /\ now >= Tick + cacheTtl
    /\ BackgroundPending
    /\ \E r \in CachedResponses(sent) : r.cache_info.freshness = "stale"

\* the second write: a refresh completed at 15000 ms or later and the
\* snapshot carries the time of that turn
C29_WitnessRewritten ==
    /\ healthCache.present
    /\ healthCache.timestamp = now
    /\ now >= Tick + cacheTtl
    /\ refreshes = << >>
    /\ \A s \in ServiceType : cb[s].requestCount = 2

(***************************************************************************)
(* The proxies and the health routes on the same breakers                  *)
(***************************************************************************)
\* the calls the breaker of s may still take
callBudget(s) ==
    IF cb[s].requestCount >= minFailures THEN MaxSharedCalls ELSE MaxOtherCalls

\* a request for service s arrives at its proxy
SharedRequest(r, s, url) ==
    /\ Recyclable(r)
    /\ checksEntered(s) < callBudget(s)
    /\ protectedProxy(r, s, url)

\* GET /health/<service>
SharedCheck(s) ==
    /\ ~individual[s]
    /\ ~ongoing(s) => checksEntered(s) < callBudget(s)
    /\ individualHealthEndpoint(s)

NextShared ==
    \/ \E r \in ReqIds, s \in ServiceType :
          \E url \in Inbound(s) : SharedRequest(r, s, url)
    \/ \E r \in ReqIds, code \in UpstreamStatus : UpstreamResponds(r, code)
    \/ \E r \in ReqIds : UpstreamEnds(r)
    \/ \E r \in ReqIds : UpstreamFails(r)
    \/ \E r \in ReqIds : ProxyRejects(r)
    \/ \E r \in ReqIds : OperationTimeoutFires(r)
    \/ \E r \in ReqIds : ProxyTimerFires(r)
    \/ \E s \in ServiceType : SharedCheck(s)
    \/ \E s \in ServiceType, outcome \in ProbeOutcomes :
          ProbeReturns(s, outcome)
    \/ \E s \in ServiceType : CheckTimerFires(s)
    \/ AdvanceClock

\* proxied requests and per-service health checks interleaved, from the
\* moment proxied traffic has tripped the breaker of one service
SpecShared == InitTripped /\ [][NextShared]_vars

\* a proxied request for s enters the middleware in slot r in this step
RequestEnters(r, s) == \E url \in Inbound(s) : SharedRequest(r, s, url)

\* the execute() call of a proxied request for s settles in this step
RequestSettles(r, s) ==
    /\ reqs[r].svc = s
    /\ reqs[r].race = "racing"
    /\ reqs'[r].race = "settled"

\* the registered check of s settles in this step
RegisteredCheckSettles(s) ==
    ongoingHealthChecks[s].pending /\ ~ongoingHealthChecks'[s].pending

\* C30: the proxy and the health check of a service use the same breaker
\* and no other one.  Every step that changes a breaker is a proxied
\* request, a health check or a settlement for that service, and changes
\* no other breaker.  With the breaker of s opened by proxied traffic: a
\* health check of s within the cooldown is answered unhealthy with the
\* open-breaker error in the same turn, registers no probe and leaves the
\* breaker OPEN; a health check of s after the cooldown makes the breaker
\* HALF_OPEN and registers its probe; the probe's recorded success makes
\* it CLOSED, after which a proxied request for s is admitted; and a
\* proxied request within the cooldown is refused by the same breaker.
C30_ProxyAndHealthShareBreaker ==
    [][\A s \in ServiceType :
        /\ (CoolingDown(s) /\ ~ongoing(s) /\ reqs' = reqs /\ SharedCheck(s))
             => /\ cb'[s].state = OPEN
                /\ ExecuteCalled(s)
                /\ ~ongoingHealthChecks'[s].pending
                /\ sent' = {individualResponse(s, "unhealthy",
                                               openErrorMessage)}
        /\ (CooledDown(s) /\ ~ongoing(s) /\ reqs' = reqs /\ SharedCheck(s))
             => /\ cb'[s].state = HALF_OPEN
                /\ ExecuteCalled(s)
                /\ ongoingHealthChecks'[s] = [pending |-> TRUE, start |-> now]
                /\ sent' = {}
        /\ cb'[s] # cb[s]
             => /\ \/ \E r \in ReqIds : RequestEnters(r, s) \/ RequestSettles(r, s)
                   \/ SharedCheck(s)
                   \/ RegisteredCheckSettles(s)
                /\ \A t \in ServiceType \ {s} : cb'[t] = cb[t]
                /\ (cb[s].state = HALF_OPEN /\ RegisteredCheckSettles(s))
                     => \/ /\ SuccessRecorded(s)
                           /\ cb'[s].state = CLOSED
                           /\ executeAdmission(cb'[s]).admitted
                        \/ /\ FailureRecorded(s)
                           /\ CheckTimerDue(s)
                           /\ cb'[s].state \in {HALF_OPEN, OPEN}
                /\ \A r \in ReqIds :
                      RequestEnters(r, s)
                        => /\ ExecuteCalled(s)
                           /\ CoolingDown(s)
                                => /\ cb'[s].state = OPEN
                                   /\ reqs'[r].race = "none"
                                   /\ reqs'[r].status = serviceUnavailable
                           /\ ~CoolingDown(s)
                                => /\ reqs'[r].race = "racing"
                                   /\ cb'[s].state # OPEN
      ]_vars

\* C30 witness: proxied traffic had opened the breaker of s; a health
\* check within the cooldown was refused, one after the cooldown probed
\* and was recorded as a success, and a proxied request for s is now in
\* flight through the closed breaker (5 + 3 requests counted), while the
\* other two breakers were never entered
C30_Witness ==
    \E s \in ServiceType :
        /\ cb[s].state = CLOSED
        /\ cb[s].requestCount = minFailures + 3
        /\ cb[s].successCount = 1
        /\ cb[s].lastSuccessTime >= Tick + resetTimeout
        /\ \E r \in ReqIds : reqs[r].svc = s /\ reqs[r].race = "racing"
        /\ \A t \in ServiceType \ {s} : cb[t] = NewBreaker

=============================================================================
